---- MODULE Spec2Model ----
(***************************************************************************)
(* Model of the customer-voice signal pipeline of backend/social_signals.py *)
(* (source fetchers, signal scorer, aggregator, collection orchestrator).   *)
(*                                                                          *)
(* Conventions.                                                             *)
(*  - A Python str is a sequence of one-character strings.                  *)
(*  - A JSON / Python value is a tagged record: k names its kind, and one   *)
(*    field of its own per kind holds the value ([k |-> "int", n |-> 5]).     *)
(*  - signal_score is kept in units of 1e-4 (the code rounds it to four     *)
(*    decimals), so 10000 stands for 1.0.                                   *)
(*  - A call that may raise returns a record with a field "raised".         *)
(***************************************************************************)
EXTENDS Integers, Sequences, FiniteSets, TLC

VARIABLES
    post,           \* scorer: the post handed to _score_post_signal
    scored,         \* scorer: what _score_post_signal returned (or NoResult)
    aggPosts,       \* aggregator: the scored posts handed to _aggregate_pmf_signals
    aggStatuses,    \* aggregator: the source_status map handed to it
    insights,       \* aggregator: what it returned (or NoResult)
    fSource,        \* fetcher: which of the three fetchers is called
    fToken,         \* fetcher: self.x_bearer_token
    fLimit,         \* fetcher: the limit argument
    fResponse,      \* fetcher: the response of the search endpoint
    fetched,        \* fetcher: what the call returned or raised (or NoResult)
    fRequests,      \* fetcher: HTTP requests sent by the call
    config,         \* collect: the service's and the call's settings
    responses,      \* collect: source -> the response its search endpoint gives
    taskState,      \* collect: source -> "none", "created", "requested", "done"
    taskOutcome,    \* collect: source -> what the fetcher returned or raised
    requests,       \* collect: source -> HTTP requests sent
    finished,       \* collect: the sources in the order their tasks finished
    awaiting,       \* collect: index in tasks of the task the loop awaits
    acc,            \* collect: the locals statuses, all_posts, errors
    pc,             \* collect: "idle", "start", "loop", "returned", "raised"
    result,         \* collect: the returned dict (or NoResult)
    cliEnv,         \* cli: the environment variables from_env reads
    cliArgs,        \* cli: the parsed command line
    cliCallRaises,  \* cli: whether the collection call raises
    cliPc,          \* cli: "idle", "start", "built", "done"
    cliService,     \* cli: the service from_env built (or NoResult)
    cliOutcome,     \* cli: how cli_main ended (or NoResult)
    cliStdout,      \* cli: what was printed: "nothing", "json", "summary"
    cliLogged,      \* cli: whether logger.exception was called
    sumResult,      \* summary: the result of the awaited collection call
    summary,        \* summary: the returned string, as its segments (or NoResult)
    csConfig,       \* competitors: exa_api_key, competitor_limit and the limit argument
    csPc,           \* competitors: position in find_top_competitors_for_idea
    csClock,        \* competitors: seconds on time.monotonic() since the wait began
    csRequests,     \* competitors: Exa requests sent, per endpoint
    csStatus,       \* competitors: the status the latest poll gave ("" before any)
    csWebsetId,     \* competitors: webset_id (None before the create call returned)
    csItems,        \* competitors: the local items of _fetch_webset_items
    csOffset,       \* competitors: the local offset of _fetch_webset_items
    csResult        \* competitors: what the call returned or raised (or NoResult)

scoreVars == <<post, scored>>

aggVars == <<aggPosts, aggStatuses, insights>>

fetchVars == <<fSource, fToken, fLimit, fResponse, fetched, fRequests>>

collectVars ==
    <<config, responses, taskState, taskOutcome, requests, finished, awaiting, acc,
      pc, result>>

cliVars ==
    <<cliEnv, cliArgs, cliCallRaises, cliPc, cliService, cliOutcome, cliStdout, cliLogged>>

sumVars == <<sumResult, summary>>

searchVars ==
    <<csConfig, csPc, csClock, csRequests, csStatus, csWebsetId, csItems, csOffset,
      csResult>>

vars == <<scoreVars, aggVars, fetchVars, collectVars, cliVars, sumVars, searchVars>>

NoResult == [k |-> "none"]

(***************************************************************************)
(* Python / JSON values                                                     *)
(***************************************************************************)
JNull == [k |-> "null"]
JBool(b) == [k |-> "bool", b |-> b]
JInt(n) == [k |-> "int", n |-> n]
\* a finite float, held in tenths: JFloat(-39) is -3.9
JFloat(tenths) == [k |-> "float", tenths |-> tenths]
JInf == [k |-> "inf"]
JNaN == [k |-> "nan"]
JStr(s) == [k |-> "str", s |-> s]
JList(items) == [k |-> "list", items |-> items]
JDict(d) == [k |-> "dict", d |-> d]

\* bool(value)
Truthy(j) ==
    CASE j.k = "null" -> FALSE
      [] j.k = "bool" -> j.b
      [] j.k = "int" -> j.n # 0
      [] j.k = "float" -> j.tenths # 0
      [] j.k \in {"inf", "nan"} -> TRUE
      [] j.k = "str" -> Len(j.s) > 0
      [] j.k = "list" -> Len(j.items) > 0
      [] j.k = "dict" -> DOMAIN j.d # {}
      [] OTHER -> FALSE

(***************************************************************************)
(* Strings                                                                  *)
(***************************************************************************)
Whitespace == {" ", "\t", "\n"}

UpperToLower ==
    [A |-> "a", B |-> "b", C |-> "c", D |-> "d", E |-> "e", F |-> "f", G |-> "g",
     H |-> "h", I |-> "i", J |-> "j", K |-> "k", L |-> "l", M |-> "m", N |-> "n",
     O |-> "o", P |-> "p", Q |-> "q", R |-> "r", S |-> "s", T |-> "t", U |-> "u",
     V |-> "v", W |-> "w", X |-> "x", Y |-> "y", Z |-> "z"]

\* str.lower()
Lower(s) ==
    [i \in 1..Len(s) |-> IF s[i] \in DOMAIN UpperToLower THEN UpperToLower[s[i]] ELSE s[i]]

\* str.strip()
Strip(s) ==
    LET ink == {i \in 1..Len(s) : s[i] \notin Whitespace}
    IN  IF ink = {} THEN <<>>
        ELSE LET lo == CHOOSE i \in ink : \A j \in ink : i <= j
                 hi == CHOOSE i \in ink : \A j \in ink : i >= j
             IN  SubSeq(s, lo, hi)

\* phrase in text
IsSubstring(phrase, text) ==
    \E i \in 0..(Len(text) - Len(phrase)) :
        \A j \in 1..Len(phrase) : text[i + j] = phrase[j]

\* " ".join(text.split()): the words of the text, one space between them
JoinSplit(s) ==
    LET IsWord(i) == s[i] \notin Whitespace
        \* a character of a word, or the last blank before a word that is
        \* not the first: it becomes the one space between two words
        Kept(i) ==
            \/ IsWord(i)
            \/ i < Len(s) /\ IsWord(i + 1) /\ (\E j \in 1..(i - 1) : IsWord(j))
        kept == SelectSeq([i \in 1..Len(s) |-> i], Kept)
    IN  [n \in 1..Len(kept) |-> IF IsWord(kept[n]) THEN s[kept[n]] ELSE " "]

(***************************************************************************)
(* Keyword sets                                                             *)
(***************************************************************************)
PAIN_KEYWORDS ==
    { <<"p", "a", "i", "n">>,   \* pain
      <<"p", "r", "o", "b", "l", "e", "m">>,   \* problem
      <<"s", "t", "r", "u", "g", "g", "l", "e">>,   \* struggle
      <<"h", "a", "r", "d">>,   \* hard
      <<"d", "i", "f", "f", "i", "c", "u", "l", "t">>,   \* difficult
      <<"b", "r", "o", "k", "e", "n">>,   \* broken
      <<"f", "r", "u", "s", "t", "r", "a", "t", "i", "n", "g">>,   \* frustrating
      <<"f", "r", "i", "c", "t", "i", "o", "n">>,   \* friction
      <<"a", "n", "n", "o", "y", "i", "n", "g">>,   \* annoying
      <<"s", "l", "o", "w">>,   \* slow
      <<"e", "x", "p", "e", "n", "s", "i", "v", "e">>,   \* expensive
      <<"m", "a", "n", "u", "a", "l">>,   \* manual
      <<"w", "a", "s", "t", "e">>,   \* waste
      <<"i", "n", "e", "f", "f", "i", "c", "i", "e", "n", "t">>,   \* inefficient
      <<"w", "o", "r", "k", "a", "r", "o", "u", "n", "d">>,   \* workaround
      <<"c", "l", "u", "n", "k", "y">>,   \* clunky
      <<"h", "a", "t", "e">>,   \* hate
      <<"s", "t", "u", "c", "k">> }   \* stuck

INTENT_KEYWORDS ==
    { <<"l", "o", "o", "k", "i", "n", "g", " ", "f", "o", "r">>,   \* looking for
      <<"n", "e", "e", "d">>,   \* need
      <<"w", "i", "s", "h">>,   \* wish
      <<"t", "r", "y", "i", "n", "g", " ", "t", "o", " ", "f", "i", "n", "d">>,   \* trying to find
      <<"a", "n", "y", " ", "t", "o", "o", "l">>,   \* any tool
      <<"r", "e", "c", "o", "m", "m", "e", "n", "d">>,   \* recommend
      <<"d", "o", "e", "s", " ", "a", "n", "y", "o", "n", "e", " ", "u", "s", "e">>,   \* does anyone use
      <<"w", "h", "a", "t", " ", "d", "o", " ", "y", "o", "u", " ", "u", "s", "e">>,   \* what do you use
      <<"s", "e", "a", "r", "c", "h", "i", "n", "g", " ", "f", "o", "r">>,   \* searching for
      <<"h", "e", "l", "p", " ", "w", "i", "t", "h">> }   \* help with

BUYING_KEYWORDS ==
    { <<"w", "o", "u", "l", "d", " ", "p", "a", "y">>,   \* would pay
      <<"w", "i", "l", "l", "i", "n", "g", " ", "t", "o", " ", "p", "a", "y">>,   \* willing to pay
      <<"b", "u", "d", "g", "e", "t">>,   \* budget
      <<"p", "r", "i", "c", "i", "n", "g">>,   \* pricing
      <<"p", "r", "i", "c", "e">>,   \* price
      <<"s", "u", "b", "s", "c", "r", "i", "p", "t", "i", "o", "n">>,   \* subscription
      <<"p", "a", "i", "d">>,   \* paid
      <<"b", "u", "y">>,   \* buy
      <<"p", "u", "r", "c", "h", "a", "s", "e">>,   \* purchase
      <<"c", "o", "s", "t">>,   \* cost
      <<"i", "n", "v", "o", "i", "c", "e">> }   \* invoice

SWITCH_KEYWORDS ==
    { <<"a", "l", "t", "e", "r", "n", "a", "t", "i", "v", "e">>,   \* alternative
      <<"s", "w", "i", "t", "c", "h">>,   \* switch
      <<"m", "i", "g", "r", "a", "t", "e">>,   \* migrate
      <<"r", "e", "p", "l", "a", "c", "e">>,   \* replace
      <<"c", "o", "m", "p", "e", "t", "i", "t", "o", "r">>,   \* competitor
      <<"l", "e", "a", "v", "i", "n", "g">>,   \* leaving
      <<"c", "h", "u", "r", "n">> }   \* churn

(***************************************************************************)
(* Helpers of social_signals.py                                             *)
(***************************************************************************)
Digits == <<"0", "1", "2", "3", "4", "5", "6", "7", "8", "9">>

DigitVal(c) == (CHOOSE d \in 1..10 : Digits[d] = c) - 1

\* int(str): optional surrounding whitespace, optional sign, decimal digits
IsIntLiteral(s) ==
    LET t == Strip(s)
        d == IF t # <<>> /\ t[1] \in {"+", "-"} THEN Tail(t) ELSE t
    IN  d # <<>> /\ \A i \in 1..Len(d) : \E n \in 1..10 : Digits[n] = d[i]

IntLiteral(s) ==
    LET t == Strip(s)
        neg == t[1] = "-"
        d == IF t[1] \in {"+", "-"} THEN Tail(t) ELSE t
        V[i \in 0..Len(d)] == IF i = 0 THEN 0 ELSE 10 * V[i - 1] + DigitVal(d[i])
    IN  IF neg THEN -V[Len(d)] ELSE V[Len(d)]

\* _safe_int(value, default=0): int(value), 0 on TypeError / ValueError.
\* int() of an infinite float raises OverflowError, which is not caught.
_safe_int(value) ==
    CASE value.k = "int" -> [raised |-> FALSE, v |-> value.n]
      [] value.k = "bool" -> [raised |-> FALSE, v |-> IF value.b THEN 1 ELSE 0]
      [] value.k = "float" ->
            [raised |-> FALSE,
             v |-> IF value.tenths >= 0 THEN value.tenths \div 10
                   ELSE -((-value.tenths) \div 10)]
      [] value.k = "inf" -> [raised |-> TRUE, v |-> 0]
      [] value.k = "str" /\ IsIntLiteral(value.s) ->
            [raised |-> FALSE, v |-> IntLiteral(value.s)]
      [] OTHER -> [raised |-> FALSE, v |-> 0]

\* _compact(text): " ".join((text or "").split()), text a str or None
_compact(text) == IF Truthy(text) THEN JoinSplit(text.s) ELSE <<>>

\* _contains_any_phrase(text, phrases): how many of the phrases occur
_contains_any_phrase(text, phrases) ==
    LET lower == Lower(text)
    IN  Cardinality({phrase \in phrases : IsSubstring(phrase, lower)})

\* _snippet(text, max_len)
_snippet(text, max_len) ==
    LET clean == JoinSplit(text)
    IN  IF Len(clean) <= max_len THEN clean
        ELSE SubSeq(clean, 1, max_len - 3) \o <<".", ".", ".">>

Concat(fs) ==
    LET C[i \in 0..Len(fs)] == IF i = 0 THEN <<>> ELSE C[i - 1] \o fs[i]
    IN  C[Len(fs)]

Min(a, b) == IF a <= b THEN a ELSE b

Max(a, b) == IF a >= b THEN a ELSE b

(***************************************************************************)
(* Signal scorer                                                            *)
(***************************************************************************)
\* round(min(0.25, log1p(e) / 18), 4) in units of 1e-4, for e = 1..89;
\* log1p(e) / 18 reaches 0.25 between e = 89 and e = 90.
BoostTable ==
    << 385, 610, 770, 894, 995, 1081, 1155, 1221, 1279, 1332,
       1381, 1425, 1466, 1504, 1540, 1574, 1606, 1636, 1664, 1691,
       1717, 1742, 1766, 1788, 1810, 1831, 1851, 1871, 1890, 1908,
       1925, 1943, 1959, 1975, 1991, 2006, 2021, 2035, 2049, 2063,
       2076, 2090, 2102, 2115, 2127, 2139, 2151, 2162, 2173, 2184,
       2195, 2206, 2216, 2226, 2236, 2246, 2256, 2265, 2275, 2284,
       2293, 2302, 2310, 2319, 2328, 2336, 2344, 2352, 2360, 2368,
       2376, 2384, 2391, 2399, 2406, 2413, 2420, 2427, 2434, 2441,
       2448, 2455, 2462, 2468, 2475, 2481, 2487, 2494, 2500 >>

\* (mutant of EngagementBoost: the magnitude of the engagement is used, a
\* negative count is boosted like a positive one)
EngagementBoost_Magnitude(engagement) ==
    LET e == IF engagement < 0 THEN 0 - engagement ELSE engagement
    IN  IF e = 0 THEN 0
        ELSE IF e <= Len(BoostTable) THEN BoostTable[e]
        ELSE 2500

\* engagement_boost = min(0.25, math.log1p(max(0, engagement)) / 18)
EngagementBoost(engagement) ==
    LET e == Max(0, engagement)
    IN  IF e = 0 THEN 0
        ELSE IF e <= Len(BoostTable) THEN BoostTable[e]
        ELSE 2500

\* raw_score: the weighted sum of the four normalised hit counts and the boost
RawScore(pain_hits, intent_hits, buying_hits, switch_hits, engagement_boost) ==
      1750 * Min(2, pain_hits)
    + 1250 * Min(2, intent_hits)
    + 2500 * Min(1, buying_hits)
    + 1500 * Min(1, switch_hits)
    + engagement_boost

\* (mutant of ClampScore: the weighted sum is returned unclamped)
ClampScore_Unclamped(raw_score) == raw_score

\* score = min(1.0, raw_score)
ClampScore(raw_score) == Min(10000, raw_score)

SignalLabels(pain_hits, intent_hits, buying_hits, switch_hits) ==
       (IF pain_hits > 0 THEN <<"pain">> ELSE <<>>)
    \o (IF intent_hits > 0 THEN <<"intent">> ELSE <<>>)
    \o (IF buying_hits > 0 THEN <<"buying">> ELSE <<>>)
    \o (IF switch_hits > 0 THEN <<"switch">> ELSE <<>>)

\* the text the keyword sets are matched against
ScoredText(p) ==
    Strip((IF Truthy(p.title) THEN p.title.s ELSE <<>>) \o <<" ">>
          \o (IF Truthy(p.text) THEN p.text.s ELSE <<>>))

\* _score_post_signal(post): the post extended with score, labels and hits.
\* title and text are a str or None; engagement is any value.
_score_post_signal(p) ==
    LET text == ScoredText(p)
        pain_hits == _contains_any_phrase(text, PAIN_KEYWORDS)
        intent_hits == _contains_any_phrase(text, INTENT_KEYWORDS)
        buying_hits == _contains_any_phrase(text, BUYING_KEYWORDS)
        switch_hits == _contains_any_phrase(text, SWITCH_KEYWORDS)
        engagement == _safe_int(p.engagement)
    IN  IF engagement.raised THEN [raised |-> TRUE]
        ELSE [raised |-> FALSE,
              post |-> [signal_score |->
                            ClampScore(RawScore(pain_hits, intent_hits, buying_hits,
                                                switch_hits,
                                                EngagementBoost(engagement.v))),
                        signal_labels |->
                            SignalLabels(pain_hits, intent_hits, buying_hits, switch_hits),
                        pain_hits |-> pain_hits,
                        intent_hits |-> intent_hits,
                        buying_hits |-> buying_hits,
                        switch_hits |-> switch_hits] @@ p]

(***************************************************************************)
(* Aggregator                                                               *)
(***************************************************************************)
\* a sort key that leaves the engagement out
SortKey_ScoreOnly(p) == <<p.signal_score, 0>>

\* the sort key of both sorts: (signal_score, _safe_int(engagement))
SortKey(p) == <<p.signal_score, _safe_int(p.engagement).v>>

\* tuple comparison a >= b of two sort keys
KeyGE(a, b) == a[1] > b[1] \/ (a[1] = b[1] /\ a[2] >= b[2])

\* sorted(posts, key=SortKey, reverse=True): descending and stable (posts
\* with equal keys keep their relative order)
SortedDesc(posts) ==
    LET Insert(sorted, x) ==
            LET n == Cardinality({i \in 1..Len(sorted) : KeyGE(SortKey(sorted[i]), SortKey(x))})
            IN  SubSeq(sorted, 1, n) \o <<x>> \o SubSeq(sorted, n + 1, Len(sorted))
        F[i \in 0..Len(posts)] == IF i = 0 THEN <<>> ELSE Insert(F[i - 1], posts[i])
    IN  F[Len(posts)]

\* [x for x in seq if Test(x)]
SelectSeqBy(seq, Test(_)) ==
    LET F[i \in 0..Len(seq)] ==
            IF i = 0 THEN <<>>
            ELSE IF Test(seq[i]) THEN Append(F[i - 1], seq[i]) ELSE F[i - 1]
    IN  F[Len(seq)]

\* seq[:n]
Take(seq, n) == SubSeq(seq, 1, Min(n, Len(seq)))

\* sum(1 for post in scored_posts if Test(post))
CountBy(seq, Test(_)) == Cardinality({i \in 1..Len(seq) : Test(seq[i])})

\* sum(post["signal_score"] for post in scored_posts), in units of 1e-4
SumScores(seq) ==
    LET F[i \in 0..Len(seq)] == IF i = 0 THEN 0 ELSE F[i - 1] + seq[i].signal_score
    IN  F[Len(seq)]

\* int(round(num / den)) for num >= 0, den > 0.  Python rounds an exact half
\* to the even integer; the float that the code rounds carries an error of
\* a few ulps, so at an exact half it may fall on either side: half_up says
\* which side, and both are behaviours of the code.
RoundRatio(num, den, half_up) ==
    LET q == num \div den
        r == num % den
    IN  IF 2 * r < den THEN q
        ELSE IF 2 * r > den THEN q + 1
        ELSE IF half_up THEN q + 1 ELSE q

\* (mutant of PmfScore: confidence = (total / 40) * coverage, the volume
\* term not capped at 1.0)
PmfScore_VolumeUncapped(sum_scores, total, completed, n_statuses, half_up) ==
    LET n == Max(1, n_statuses)
    IN  RoundRatio(28 * sum_scores * n + 3000 * total * completed * total,
                   4000 * total * n, half_up)

\* (mutant of PmfScore: confidence = min(1.0, total / 40), the coverage of
\* the sources left out)
PmfScore_CoverageIgnored(sum_scores, total, completed, n_statuses, half_up) ==
    RoundRatio(28 * sum_scores + 3000 * Min(40, total) * total, 4000 * total, half_up)

\* (mutant of PmfScore: coverage is the share of the sources that did not
\* complete)
PmfScore_CoverageOfFailures(sum_scores, total, completed, n_statuses, half_up) ==
    LET n == Max(1, n_statuses)
    IN  RoundRatio(28 * sum_scores * n + 3000 * Min(40, total) * (n - completed) * total,
                   4000 * total * n, half_up)

\* pmf_score = int(round(100 * (0.7 * avg_signal + 0.3 * confidence))) with
\*   avg_signal = sum_scores / (10000 * total)
\*   coverage   = completed / max(1, len(statuses))
\*   confidence = min(1.0, total / 40) * coverage
\* as one exact ratio:
\*   (28 * sum_scores * n + 3000 * min(40, total) * completed * total) / (4000 * total * n)
PmfScore(sum_scores, total, completed, n_statuses, half_up) ==
    LET n == Max(1, n_statuses)
    IN  RoundRatio(28 * sum_scores * n + 3000 * Min(40, total) * completed * total,
                   4000 * total * n, half_up)

\* (mutant of SignalLevel: a score of exactly 70 is still "moderate")
SignalLevel_StrongAbove70(pmf_score) ==
    IF pmf_score > 70 THEN "strong"
    ELSE IF pmf_score >= 45 THEN "moderate"
    ELSE "weak"

SignalLevel(pmf_score) ==
    IF pmf_score >= 70 THEN "strong"
    ELSE IF pmf_score >= 45 THEN "moderate"
    ELSE "weak"

HasPain(p) == p.pain_hits > 0

HasIntent(p) == p.intent_hits > 0

HasBuying(p) == p.buying_hits > 0

HasSwitch(p) == p.switch_hits > 0

HasText(p) == Truthy(p.text)

\* (mutant of TopPainPosts: the [:8] slice is missing)
TopPainPosts_Unsliced(scored_posts) == SortedDesc(SelectSeqBy(scored_posts, HasPain))

\* top_pain_posts = sorted(pain posts, key, reverse=True)[:8]
TopPainPosts(scored_posts) == Take(SortedDesc(SelectSeqBy(scored_posts, HasPain)), 8)

\* top_pain_snippets: one entry per top pain post whose text is not empty
TopPainSnippets(scored_posts) ==
    LET kept == SelectSeqBy(TopPainPosts(scored_posts), HasText)
    IN  [i \in 1..Len(kept) |->
            [source |-> kept[i].source,
             url |-> kept[i].url,
             snippet |-> _snippet(kept[i].text.s, 180),
             signal_score |-> kept[i].signal_score]]

\* (mutant of NoPosts: a single post is treated like none)
NoPosts_AtMostOne(scored_posts) == Len(scored_posts) <= 1

\* if not scored_posts
NoPosts(scored_posts) == Len(scored_posts) = 0

\* _aggregate_pmf_signals(scored_posts, statuses); statuses is a function
\* from source names to statuses.  The summary sentence is held as its
\* template name and the numbers it embeds.
_aggregate_pmf_signals(scored_posts, statuses, half_up) ==
    IF NoPosts(scored_posts) THEN
        [pmf_signal_score |-> 0,
         signal_level |-> "insufficient_data",
         summary |-> <<"No social signal posts were collected.">>,
         counts |-> [total_posts |-> 0, pain_posts |-> 0, intent_posts |-> 0,
                     buying_posts |-> 0, switch_posts |-> 0],
         source_status |-> statuses,
         top_pain_snippets |-> <<>>]
    ELSE
        LET total == Len(scored_posts)
            pain_posts == CountBy(scored_posts, HasPain)
            intent_posts == CountBy(scored_posts, HasIntent)
            buying_posts == CountBy(scored_posts, HasBuying)
            switch_posts == CountBy(scored_posts, HasSwitch)
            completed == Cardinality({src \in DOMAIN statuses : statuses[src] = "completed"})
            pmf_score == PmfScore(SumScores(scored_posts), total, completed,
                                  Cardinality(DOMAIN statuses), half_up)
        IN  [pmf_signal_score |-> pmf_score,
             signal_level |-> SignalLevel(pmf_score),
             summary |-> <<"Collected", total, pain_posts, intent_posts, buying_posts>>,
             counts |-> [total_posts |-> total, pain_posts |-> pain_posts,
                         intent_posts |-> intent_posts, buying_posts |-> buying_posts,
                         switch_posts |-> switch_posts],
             source_status |-> statuses,
             top_pain_snippets |-> TopPainSnippets(scored_posts)]

(***************************************************************************)
(* Python operations on JSON values                                         *)
(***************************************************************************)
\* a normal return of value v
Ok(v) == [raised |-> FALSE, v |-> v]

\* an exception; exc stands for str(exc)
Raise(exc) == [raised |-> TRUE, exc |-> exc]

\* obj.get(key, default): AttributeError unless obj is a dict
Get(obj, key, default) ==
    IF obj.k # "dict" THEN Raise("AttributeError")
    ELSE IF key \in DOMAIN obj.d THEN Ok(obj.d[key])
    ELSE Ok(default)

\* d.get(key) on a value known to be a dict
GetOrNone(obj, key) == IF key \in DOMAIN obj.d THEN obj.d[key] ELSE JNull

\* a or b
Or(a, b) == IF Truthy(a) THEN a ELSE b

SetToSeq(S) == CHOOSE f \in [1..Cardinality(S) -> S] : \A x \in S : \E i \in DOMAIN f : f[i] = x

\* the items a for loop (or list.extend) draws from a value: TypeError
\* unless it is iterable; a str yields its characters, a dict its keys
Iterate(obj) ==
    CASE obj.k = "list" -> Ok(obj.items)
      [] obj.k = "str" -> Ok([i \in 1..Len(obj.s) |-> JStr(<<obj.s[i]>>)])
      [] obj.k = "dict" -> Ok([i \in 1..Cardinality(DOMAIN obj.d) |->
                                  JStr(<<SetToSeq(DOMAIN obj.d)[i]>>)])
      [] OTHER -> Raise("TypeError")

\* the results of a loop body applied to each item: the first exception
\* raised ends the loop
MapRaising(results) ==
    LET bad == {i \in 1..Len(results) : results[i].raised}
    IN  IF bad = {} THEN Ok([i \in 1..Len(results) |-> results[i].v])
        ELSE results[CHOOSE i \in bad : \A j \in bad : i <= j]

\* str(n) of an int
IntToStr(n) ==
    LET D[m \in 0..(IF n < 0 THEN -n ELSE n)] ==
            IF m < 10 THEN <<Digits[m + 1]>> ELSE D[m \div 10] \o <<Digits[(m % 10) + 1]>>
    IN  IF n < 0 THEN <<"-">> \o D[-n] ELSE D[n]

\* f"{value}" of a str, None, int or bool
Format(value) ==
    CASE value.k = "str" -> value.s
      [] value.k = "null" -> <<"N", "o", "n", "e">>
      [] value.k = "int" -> IntToStr(value.n)
      [] value.k = "bool" -> IF value.b THEN <<"T", "r", "u", "e">> ELSE <<"F", "a", "l", "s", "e">>
      [] OTHER -> <<"?">>

\* _compact(value) raises AttributeError on a truthy value that is no str
CompactRaises(value) == Truthy(value) /\ value.k # "str"

\* _to_iso(ts): None for None and for what float() or fromtimestamp()
\* reject with TypeError / ValueError / OSError; OverflowError (an infinite
\* timestamp) is not caught.  The ISO-8601 string of an instant is held as
\* the instant.
_to_iso(ts) ==
    CASE ts.k \in {"int", "float", "bool"} -> Ok([k |-> "isoformat", of |-> ts])
      [] ts.k = "str" /\ IsIntLiteral(ts.s) -> Ok([k |-> "isoformat", of |-> JInt(IntLiteral(ts.s))])
      [] ts.k = "inf" -> Raise("OverflowError")
      [] OTHER -> Ok(JNull)

\* _strip_html: re.sub(r"<[^>]+>", " ", text): each leftmost "<", one or
\* more characters other than ">", ">" becomes one space
StripTags(s) ==
    LET \* the index of the ">" closing a tag opened at i, or 0
        Close(i) ==
            IF s[i] # "<" THEN 0
            ELSE LET gts == {j \in (i + 1)..Len(s) : s[j] = ">"}
                 IN  IF gts = {} THEN 0
                     ELSE LET j == CHOOSE x \in gts : \A y \in gts : x <= y
                          IN  IF j > i + 1 THEN j ELSE 0
        \* F[i]: the output for s[i..]
        F[i \in 1..(Len(s) + 1)] ==
            IF i > Len(s) THEN <<>>
            ELSE IF Close(i) > 0 THEN <<" ">> \o F[Close(i) + 1]
            ELSE <<s[i]>> \o F[i + 1]
    IN  F[1]

\* html.unescape, for the character references of the table
Entities ==
    { [name |-> <<"&", "a", "m", "p", ";">>, char |-> "&"],
      [name |-> <<"&", "l", "t", ";">>, char |-> "<"],
      [name |-> <<"&", "g", "t", ";">>, char |-> ">"],
      [name |-> <<"&", "q", "u", "o", "t", ";">>, char |-> "\""],
      [name |-> <<"&", "#", "x", "2", "7", ";">>, char |-> "'"] }

Unescape(s) ==
    LET At(i) == {e \in Entities : i + Len(e.name) - 1 <= Len(s)
                                   /\ SubSeq(s, i, i + Len(e.name) - 1) = e.name}
        F[i \in 1..(Len(s) + 1)] ==
            IF i > Len(s) THEN <<>>
            ELSE IF At(i) # {}
                 THEN LET e == CHOOSE x \in At(i) : TRUE
                      IN  <<e.char>> \o F[i + Len(e.name)]
                 ELSE <<s[i]>> \o F[i + 1]
    IN  F[1]

\* _strip_html(text): TypeError from re.sub on a truthy value that is no str
StripHtmlRaises(text) == Truthy(text) /\ text.k # "str"

_strip_html(text) ==
    IF ~Truthy(text) THEN <<>> ELSE JoinSplit(Unescape(StripTags(text.s)))

\* max(lo, min(100, limit or self.default_limit_per_source))
TakeLimit(lo, limit, default_limit_per_source) ==
    Max(lo, Min(100, Or(limit, JInt(default_limit_per_source)).n))

(***************************************************************************)
(* HTTP responses.  kind "ok" is a 2xx response whose body parsed as JSON   *)
(* (payload); every other kind makes client.get, raise_for_status or        *)
(* response.json raise, with str(exc) = message.                            *)
(***************************************************************************)
HttpOk(payload) == [kind |-> "ok", payload |-> payload, message |-> ""]

HttpFailure(kind, message) == [kind |-> kind, payload |-> JNull, message |-> message]

(***************************************************************************)
(* Source fetchers                                                          *)
(***************************************************************************)
UrlReddit == <<"h", "t", "t", "p", "s", ":", "/", "/", "w", "w", "w", ".", "r", "e", "d", "d", "i", "t", ".", "c", "o", "m">>

UrlHackerNews == <<"h", "t", "t", "p", "s", ":", "/", "/", "n", "e", "w", "s", ".", "y", "c", "o", "m", "b", "i", "n", "a", "t", "o", "r", ".", "c", "o", "m", "/", "i", "t", "e", "m", "?", "i", "d", "=">>

UrlX == <<"h", "t", "t", "p", "s", ":", "/", "/", "x", ".", "c", "o", "m", "/">>

UrlXWeb == <<"h", "t", "t", "p", "s", ":", "/", "/", "x", ".", "c", "o", "m", "/", "i", "/", "w", "e", "b", "/", "s", "t", "a", "t", "u", "s", "/">>

UrlXStatus == <<"/", "s", "t", "a", "t", "u", "s", "/">>

\* the children of a Reddit payload
RedditChildren(payload) ==
    CASE payload.k = "dict" ->
            LET data == Get(payload, "data", JDict(<<>>))
            IN  IF data.raised THEN data
                ELSE Get(data.v, "children", JList(<<>>))
      [] payload.k = "list" ->
            LET OfItem(item) ==
                    IF item.k # "dict" THEN Ok(<<>>)
                    ELSE LET data == Get(item, "data", JDict(<<>>))
                             children == IF data.raised THEN data
                                         ELSE Get(data.v, "children", JList(<<>>))
                         IN  IF children.raised THEN children ELSE Iterate(children.v)
                 parts == MapRaising([i \in 1..Len(payload.items) |-> OfItem(payload.items[i])])
            IN  IF parts.raised THEN parts ELSE Ok(JList(Concat(parts.v)))
      [] OTHER -> Ok(JList(<<>>))

\* the body of the loop over children
RedditPost(child) ==
    LET got == Get(child, "data", JDict(<<>>))
    IN  IF got.raised THEN got
        ELSE IF got.v.k # "dict" THEN Raise("AttributeError")
        ELSE
        LET data == got.v
            title == IF "title" \in DOMAIN data.d THEN data.d["title"] ELSE JStr(<<>>)
            selftext == IF "selftext" \in DOMAIN data.d THEN data.d["selftext"]
                        ELSE JStr(<<>>)
            text == JoinSplit(Format(title) \o <<" ">> \o Format(selftext))
            permalink == GetOrNone(data, "permalink")
            url == IF Truthy(permalink) THEN JStr(UrlReddit \o Format(permalink))
                   ELSE GetOrNone(data, "url")
            upvotes == _safe_int(GetOrNone(data, "ups"))
            comments == _safe_int(GetOrNone(data, "num_comments"))
            created_at == _to_iso(GetOrNone(data, "created_utc"))
        IN  IF upvotes.raised \/ comments.raised THEN Raise("OverflowError")
            ELSE IF CompactRaises(title) THEN Raise("AttributeError")
            ELSE IF created_at.raised THEN created_at
            ELSE Ok([source |-> "reddit",
                     id |-> GetOrNone(data, "id"),
                     title |-> JStr(_compact(title)),
                     text |-> JStr(text),
                     url |-> url,
                     author |-> GetOrNone(data, "author"),
                     community |-> GetOrNone(data, "subreddit_name_prefixed"),
                     created_at |-> created_at.v,
                     engagement |-> JInt(upvotes.v + comments.v),
                     upvotes |-> JInt(upvotes.v),
                     comments |-> JInt(comments.v)])

\* search_reddit_posts, given the response to its one HTTP request
search_reddit_posts(response, limit, default_limit_per_source) ==
    IF response.kind # "ok" THEN Raise(response.message)
    ELSE LET children == RedditChildren(response.payload)
             items == IF children.raised THEN children ELSE Iterate(children.v)
         IN  IF items.raised THEN items
             ELSE MapRaising([i \in 1..Len(items.v) |-> RedditPost(items.v[i])])

\* users = {user.get("id"): user for user in ... if isinstance(user, dict)};
\* a list or dict as key is unhashable (TypeError)
Hashable(value) == value.k \notin {"list", "dict"}

XUsers(payload) ==
    LET includes == Get(payload, "includes", JDict(<<>>))
        users == IF includes.raised THEN includes ELSE Get(includes.v, "users", JList(<<>>))
        items == IF users.raised THEN users ELSE Iterate(users.v)
    IN  IF items.raised THEN items
        ELSE LET dicts == SelectSeq(items.v, LAMBDA user : user.k = "dict")
             IN  IF \E i \in 1..Len(dicts) : ~Hashable(GetOrNone(dicts[i], "id"))
                 THEN Raise("TypeError")
                 ELSE Ok(dicts)

\* users.get(author_id, {}): the last user entered under that id
XUserOf(users, author_id) ==
    LET hits == {i \in 1..Len(users) : GetOrNone(users[i], "id") = author_id}
    IN  IF hits = {} THEN JDict(<<>>)
        ELSE users[CHOOSE i \in hits : \A j \in hits : i >= j]

\* the body of the loop over payload["data"]
XPost(item, users) ==
    LET got == Get(item, "public_metrics", JDict(<<>>))
    IN  IF got.raised THEN got
        ELSE
        LET metrics == Or(got.v, JDict(<<>>))
            author_id == GetOrNone(item, "author_id")
            user == XUserOf(users, author_id)
            username == GetOrNone(user, "username")
            url == IF Truthy(username)
                   THEN UrlX \o Format(username) \o UrlXStatus \o Format(GetOrNone(item, "id"))
                   ELSE UrlXWeb \o Format(GetOrNone(item, "id"))
            Counter(name) == _safe_int(GetOrNone(metrics, name))
            likes == Counter("like_count")
            replies == Counter("reply_count")
            reposts == Counter("retweet_count")
            quotes == Counter("quote_count")
            text == IF "text" \in DOMAIN item.d THEN item.d["text"] ELSE JStr(<<>>)
        IN  IF ~Hashable(author_id) THEN Raise("TypeError")
            ELSE IF metrics.k # "dict" THEN Raise("AttributeError")
            ELSE IF likes.raised \/ replies.raised \/ reposts.raised \/ quotes.raised
                 THEN Raise("OverflowError")
            ELSE IF CompactRaises(text) THEN Raise("AttributeError")
            ELSE Ok([source |-> "x",
                     id |-> GetOrNone(item, "id"),
                     title |-> JNull,
                     text |-> JStr(_compact(text)),
                     url |-> JStr(url),
                     author |-> Or(Or(username, GetOrNone(user, "name")), author_id),
                     community |-> JStr(<<"x">>),
                     created_at |-> GetOrNone(item, "created_at"),
                     engagement |-> JInt(likes.v + replies.v + reposts.v + quotes.v),
                     likes |-> JInt(likes.v),
                     replies |-> JInt(replies.v),
                     reposts |-> JInt(reposts.v),
                     quotes |-> JInt(quotes.v)])

\* a fetcher that sends its request whether or not it has a token
XRequests_Always(x_bearer_token) == TRUE

\* whether search_x_posts sends its HTTP request
XRequests(x_bearer_token) == Truthy(x_bearer_token)

\* search_x_posts, given the response to its HTTP request (if it sends one)
search_x_posts(x_bearer_token, response, limit, default_limit_per_source) ==
    IF ~XRequests(x_bearer_token) THEN Ok(<<>>)
    ELSE IF response.kind # "ok" THEN Raise(response.message)
    ELSE LET take == TakeLimit(10, limit, default_limit_per_source)
             users == XUsers(response.payload)
             data == IF users.raised THEN users
                     ELSE Get(response.payload, "data", JList(<<>>))
             items == IF data.raised THEN data ELSE Iterate(data.v)
             results == IF items.raised THEN items
                        ELSE MapRaising([i \in 1..Len(items.v) |->
                                            XPost(items.v[i], users.v)])
         IN  IF results.raised THEN results ELSE Ok(Take(results.v, take))

\* (mutant of HackerNewsPost: a hit without comment or story text keeps an
\* empty text, the title does not stand in for it)
HackerNewsPost_NoTitleFallback(hit) ==
    IF hit.k # "dict" THEN Raise("AttributeError")
    ELSE
    LET body == Or(Or(GetOrNone(hit, "comment_text"), GetOrNone(hit, "story_text")),
                   JStr(<<>>))
        head == Or(Or(GetOrNone(hit, "title"), GetOrNone(hit, "story_title")), JStr(<<>>))
        title == _compact(head)
        text == _strip_html(body)
        points == _safe_int(GetOrNone(hit, "points"))
        num_comments == _safe_int(GetOrNone(hit, "num_comments"))
        link == Or(GetOrNone(hit, "url"), GetOrNone(hit, "story_url"))
        url == IF ~Truthy(link) /\ Truthy(GetOrNone(hit, "objectID"))
               THEN JStr(UrlHackerNews \o Format(GetOrNone(hit, "objectID")))
               ELSE link
    IN  IF StripHtmlRaises(body) THEN Raise("TypeError")
        ELSE IF CompactRaises(head) THEN Raise("AttributeError")
        ELSE IF points.raised \/ num_comments.raised THEN Raise("OverflowError")
        ELSE Ok([source |-> "hackernews",
                 id |-> GetOrNone(hit, "objectID"),
                 title |-> IF title # <<>> THEN JStr(title) ELSE JNull,
                 text |-> JStr(JoinSplit(text)),
                 url |-> url,
                 author |-> GetOrNone(hit, "author"),
                 community |-> JStr(<<"h", "a", "c", "k", "e", "r", "n", "e", "w", "s">>),
                 created_at |-> GetOrNone(hit, "created_at"),
                 engagement |-> JInt(points.v + num_comments.v),
                 points |-> JInt(points.v),
                 comments |-> JInt(num_comments.v)])

\* the body of the loop over payload["hits"]
HackerNewsPost(hit) ==
    IF hit.k # "dict" THEN Raise("AttributeError")
    ELSE
    LET body == Or(Or(GetOrNone(hit, "comment_text"), GetOrNone(hit, "story_text")),
                   JStr(<<>>))
        head == Or(Or(GetOrNone(hit, "title"), GetOrNone(hit, "story_title")), JStr(<<>>))
        title == _compact(head)
        text == IF _strip_html(body) = <<>> /\ title # <<>> THEN title ELSE _strip_html(body)
        points == _safe_int(GetOrNone(hit, "points"))
        num_comments == _safe_int(GetOrNone(hit, "num_comments"))
        link == Or(GetOrNone(hit, "url"), GetOrNone(hit, "story_url"))
        url == IF ~Truthy(link) /\ Truthy(GetOrNone(hit, "objectID"))
               THEN JStr(UrlHackerNews \o Format(GetOrNone(hit, "objectID")))
               ELSE link
    IN  IF StripHtmlRaises(body) THEN Raise("TypeError")
        ELSE IF CompactRaises(head) THEN Raise("AttributeError")
        ELSE IF points.raised \/ num_comments.raised THEN Raise("OverflowError")
        ELSE Ok([source |-> "hackernews",
                 id |-> GetOrNone(hit, "objectID"),
                 title |-> IF title # <<>> THEN JStr(title) ELSE JNull,
                 text |-> JStr(JoinSplit(text)),
                 url |-> url,
                 author |-> GetOrNone(hit, "author"),
                 community |-> JStr(<<"h", "a", "c", "k", "e", "r", "n", "e", "w", "s">>),
                 created_at |-> GetOrNone(hit, "created_at"),
                 engagement |-> JInt(points.v + num_comments.v),
                 points |-> JInt(points.v),
                 comments |-> JInt(num_comments.v)])

\* search_hacker_news_posts, given the response to its one HTTP request
search_hacker_news_posts(response, limit, default_limit_per_source) ==
    IF response.kind # "ok" THEN Raise(response.message)
    ELSE LET hits == Get(response.payload, "hits", JList(<<>>))
             items == IF hits.raised THEN hits ELSE Iterate(hits.v)
         IN  IF items.raised THEN items
             ELSE MapRaising([i \in 1..Len(items.v) |-> HackerNewsPost(items.v[i])])

(***************************************************************************)
(* Sample texts                                                             *)
(***************************************************************************)
\* "so frustrating and slow "
TextFrustrating == <<"s", "o", " ", "f", "r", "u", "s", "t", "r", "a", "t", "i", "n", "g", " ", "a", "n", "d", " ", "s", "l", "o", "w", " ">>

\* "Looking for ANY TOOL "
TextLooking == <<"L", "o", "o", "k", "i", "n", "g", " ", "f", "o", "r", " ", "A", "N", "Y", " ", "T", "O", "O", "L", " ">>

\* "would pay the price\n"
TextWouldPay == <<"w", "o", "u", "l", "d", " ", "p", "a", "y", " ", "t", "h", "e", " ", "p", "r", "i", "c", "e", "\n">>

\* "an alternative to "
TextAlternative == <<"a", "n", " ", "a", "l", "t", "e", "r", "n", "a", "t", "i", "v", "e", " ", "t", "o", " ">>

\* "great weather today "
TextWeather == <<"g", "r", "e", "a", "t", " ", "w", "e", "a", "t", "h", "e", "r", " ", "t", "o", "d", "a", "y", " ">>

\* "Need help with churn"
TextNeedHelp == <<"N", "e", "e", "d", " ", "h", "e", "l", "p", " ", "w", "i", "t", "h", " ", "c", "h", "u", "r", "n">>

\* "slow"
TextSlow == <<"s", "l", "o", "w">>

\* "I hate it"
TextHate == <<"I", " ", "h", "a", "t", "e", " ", "i", "t">>

\* all sequences over S of length at most n
SeqsUpTo(S, n) == UNION { [1..k -> S] : k \in 0..n }

(***************************************************************************)
(* Scorer specification: one call of _score_post_signal on a sample post    *)
(***************************************************************************)
MaxFragments == 3

Fragments == { TextFrustrating, TextLooking, TextWouldPay, TextAlternative, TextWeather }

SampleTexts == { Concat(fs) : fs \in SeqsUpTo(Fragments, MaxFragments) }

SampleTitles == { JNull, JStr(<<>>), JStr(TextNeedHelp) }

SampleEngagements ==
    { JNull, JInt(0), JInt(5), JInt(50), JInt(-7), JInt(89), JInt(90), JInt(250000),
      JStr(<<"n", "/", "a">>), JStr(<<" ", "1", "2">>), JStr(<<"-", "3">>),
      JFloat(39), JFloat(-39), JNaN, JInf, JBool(TRUE) }

\* "this workflow is so frustrating and slow, I'd definitely pay for a better tool"
TextScenario1 ==
    <<"t", "h", "i", "s", " ", "w", "o", "r", "k", "f", "l", "o", "w", " ", "i", "s", " ", "s", "o", " ", "f", "r", "u", "s", "t", "r", "a", "t", "i", "n", "g", " ", "a", "n", "d", " ", "s", "l", "o", "w", ",", " ", "I", "'", "d", " ", "d", "e", "f", "i", "n", "i", "t", "e", "l", "y", " ", "p", "a", "y", " ", "f", "o", "r", " ", "a", " ", "b", "e", "t", "t", "e", "r", " ", "t", "o", "o", "l">>

\* "great weather today"
TextScenario2 ==
    <<"g", "r", "e", "a", "t", " ", "w", "e", "a", "t", "h", "e", "r", " ", "t", "o", "d", "a", "y">>

\* "looking for an alternative to our current software"
TextScenario3 ==
    <<"l", "o", "o", "k", "i", "n", "g", " ", "f", "o", "r", " ", "a", "n", " ", "a", "l", "t", "e", "r", "n", "a", "t", "i", "v", "e", " ", "t", "o", " ", "o", "u", "r", " ", "c", "u", "r", "r", "e", "n", "t", " ", "s", "o", "f", "t", "w", "a", "r", "e">>

\* a post of the three-post scenario
ScenarioPost(text, engagement) ==
    [source |-> "reddit", id |-> 1, url |-> 1, title |-> JNull, text |-> JStr(text),
     engagement |-> JInt(engagement)]

ScenarioPost1 == ScenarioPost(TextScenario1, 50)

ScenarioPost2 == ScenarioPost(TextScenario2, 5)

ScenarioPost3 == ScenarioPost(TextScenario3, 0)

ScorerInputs ==
    { [source |-> "reddit", id |-> 1, url |-> 1, title |-> t, text |-> JStr(x),
       engagement |-> e] :
        t \in SampleTitles, x \in SampleTexts, e \in SampleEngagements }
    \cup { ScenarioPost1, ScenarioPost2, ScenarioPost3 }

FetchIdle ==
    /\ fSource = "" /\ fToken = JNull /\ fLimit = JNull /\ fResponse = NoResult
    /\ fetched = NoResult /\ fRequests = 0

CollectIdle ==
    /\ config = NoResult /\ responses = <<>> /\ taskState = <<>> /\ taskOutcome = <<>>
    /\ requests = <<>> /\ finished = <<>> /\ awaiting = 0 /\ acc = NoResult
    /\ pc = "idle" /\ result = NoResult

CliIdle ==
    /\ cliEnv = NoResult /\ cliArgs = NoResult /\ cliCallRaises = FALSE /\ cliPc = "idle"
    /\ cliService = NoResult /\ cliOutcome = NoResult /\ cliStdout = "nothing"
    /\ cliLogged = FALSE

SumIdle == sumResult = NoResult /\ summary = NoResult

SearchIdle ==
    /\ csConfig = NoResult /\ csPc = "idle" /\ csClock = 0 /\ csRequests = <<>>
    /\ csStatus = <<>> /\ csWebsetId = JNull /\ csItems = <<>> /\ csOffset = 0
    /\ csResult = NoResult

ScoreIdle == post = NoResult /\ scored = NoResult

AggIdle == aggPosts = <<>> /\ aggStatuses = <<>> /\ insights = NoResult

ScoreInit ==
    /\ post \in ScorerInputs
    /\ scored = NoResult
    /\ AggIdle /\ FetchIdle /\ CollectIdle /\ CliIdle /\ SumIdle /\ SearchIdle

ScorePost ==
    /\ scored = NoResult
    /\ scored' = _score_post_signal(post)
    /\ UNCHANGED <<post, aggVars, fetchVars, collectVars, cliVars, sumVars, searchVars>>

ScoreNext == ScorePost

SpecScore == ScoreInit /\ [][ScoreNext]_vars

(***************************************************************************)
(* Aggregator specification: one call of _aggregate_pmf_signals on a list   *)
(* of scored posts built from blocks of sample posts                        *)
(***************************************************************************)
MaxBlocks == 2

BigBlock == 21

BlockSizes == { 1, BigBlock }

\* a post with a pain keyword in its text
PostPain ==
    [source |-> "reddit", id |-> 0, url |-> 0, title |-> JNull, text |-> JStr(TextSlow),
     engagement |-> JInt(0)]

\* a post with a pain keyword in its title and an empty text
PostPainNoText ==
    [source |-> "hackernews", id |-> 0, url |-> 0, title |-> JStr(TextHate),
     text |-> JStr(<<>>), engagement |-> JInt(5)]

\* a post with no keyword at all
PostNeutral ==
    [source |-> "x", id |-> 0, url |-> 0, title |-> JNull, text |-> JStr(TextWeather),
     engagement |-> JInt(5)]

\* a post that saturates every category
PostSaturated ==
    [source |-> "reddit", id |-> 0, url |-> 0, title |-> JStr(TextNeedHelp),
     text |-> JStr(TextFrustrating \o TextLooking \o TextWouldPay),
     engagement |-> JInt(250000)]

SamplePosts == { PostPain, PostPainNoText, PostNeutral, PostSaturated }

Blocks == { [i \in 1..n |-> _score_post_signal(p).post] : p \in SamplePosts, n \in BlockSizes }

\* the posts of the blocks in order, each with its position as id and url
Numbered(posts) == [i \in 1..Len(posts) |-> [posts[i] EXCEPT !.id = i, !.url = i]]

AggregatorInputs == { Numbered(Concat(bs)) : bs \in SeqsUpTo(Blocks, MaxBlocks) }

Sources == { "reddit", "x", "hackernews" }

Statuses == { "completed", "disabled", "error" }

\* status maps over no source, over the two mandatory sources, over all three
SampleStatuses ==
    { <<>> } \cup [{"reddit", "x"} -> Statuses] \cup [Sources -> Statuses]

AggInit ==
    /\ aggPosts \in AggregatorInputs
    /\ aggStatuses \in SampleStatuses
    /\ insights = NoResult
    /\ ScoreIdle /\ FetchIdle /\ CollectIdle /\ CliIdle /\ SumIdle /\ SearchIdle

Aggregate ==
    /\ insights = NoResult
    /\ \E half_up \in BOOLEAN :
           insights' = _aggregate_pmf_signals(aggPosts, aggStatuses, half_up)
    /\ UNCHANGED <<aggPosts, aggStatuses, scoreVars, fetchVars, collectVars, cliVars, sumVars, searchVars>>

AggNext == Aggregate

SpecAgg == AggInit /\ [][AggNext]_vars

(***************************************************************************)
(* Fetcher specification: one call of one fetcher on a sample response      *)
(***************************************************************************)
\* default_limit_per_source of a service built with the defaults
DefaultLimitPerSource == 25

\* raw counter values: missing, zero, positive, negative, numeric string,
\* non-numeric string, fractional, infinite (JSON 1e999)
SampleCounters ==
    { JNull, JInt(0), JInt(3), JInt(-5), JStr(<<"1", "2">>), JStr(<<"n", "/", "a">>),
      JFloat(39), JInf }

\* "<p>I hate it</p> &amp; slow"
TextHtml == <<"<", "p", ">", "I", " ", "h", "a", "t", "e", " ", "i", "t", "<", "/", "p", ">", " ", "&", "a", "m", "p", ";", " ", "s", "l", "o", "w">>

SampleBodies == { JStr(TextSlow), JStr(<<>>), JNull }

RedditChild(title, selftext, ups, num_comments) ==
    JDict([data |-> JDict([id |-> JStr(<<"a", "1">>), title |-> title,
                           selftext |-> selftext, ups |-> ups,
                           num_comments |-> num_comments,
                           permalink |-> JStr(<<"/", "r", "/", "1">>)])])

RedditListing(children) == JDict([data |-> JDict([children |-> JList(children)])])

\* payloads of the expected shape
RedditWellFormed ==
    { RedditListing(<<RedditChild(JStr(TextHate), body, ups, num_comments)>>) :
        body \in SampleBodies, ups \in SampleCounters, num_comments \in SampleCounters }
    \cup { RedditListing(<<>>),
           RedditListing(<<RedditChild(JStr(TextSlow), JStr(<<>>), JInt(3), JInt(1)),
                           RedditChild(JStr(<<>>), JStr(TextWeather), JInt(0), JInt(0))>>),
           \* sparse forms the fetcher fills with defaults: a child without
           \* "data", and the listing wrapped in a list
           RedditListing(<<JDict(<<>>)>>),
           JList(<<RedditListing(<<RedditChild(JStr(TextSlow), JNull, JInt(1), JInt(1))>>),
                   JInt(7)>>) }

\* 2xx payloads whose nested structure is absent or malformed
RedditMalformed ==
    { JDict(<<>>),                                         \* {}
      JDict([data |-> JDict(<<>>)]),                       \* {"data": {}}
      JDict([data |-> JNull]),                             \* {"data": null}
      JDict([data |-> JList(<<>>)]),                       \* {"data": []}
      JDict([data |-> JDict([children |-> JNull])]),       \* {"data": {"children": null}}
      RedditListing(<<JStr(<<"t", "3">>)>>),               \* a child that is a string
      RedditListing(<<JDict([data |-> JNull])>>),          \* a child whose data is null
      JList(<<>>),                                         \* []
      JList(<<JDict([data |-> JNull])>>),                  \* [{"data": null}]
      JNull, JInt(7), JStr(TextSlow) }

XTweet(text, like_count, reply_count) ==
    JDict([id |-> JStr(<<"9">>), text |-> text, author_id |-> JStr(<<"u", "1">>),
           public_metrics |-> JDict([like_count |-> like_count, reply_count |-> reply_count,
                                     retweet_count |-> JInt(1)])])

XUser == JDict([id |-> JStr(<<"u", "1">>), username |-> JStr(<<"b", "o", "b">>)])

XPayload(tweets) ==
    JDict([data |-> JList(tweets), includes |-> JDict([users |-> JList(<<XUser>>)])])

XWellFormed ==
    { XPayload(<<XTweet(body, like_count, reply_count)>>) :
        body \in SampleBodies, like_count \in SampleCounters, reply_count \in SampleCounters }
    \cup { XPayload(<<>>),
           JDict([data |-> JList(<<XTweet(JStr(TextSlow), JInt(2), JInt(0))>>)]),
           \* a tweet whose public_metrics is null
           JDict([data |-> JList(<<JDict([public_metrics |-> JNull])>>)]) }

XMalformed ==
    { JDict(<<>>),                                         \* {}
      JDict([data |-> JNull]),                             \* {"data": null}
      JDict([data |-> JList(<<JStr(<<"9">>)>>)]),          \* a tweet that is a string
      JDict([data |-> JList(<<JDict([public_metrics |-> JList(<<JInt(1)>>)])>>)]),
      JDict([data |-> JList(<<>>), includes |-> JNull]),   \* {"includes": null}
      JDict([data |-> JList(<<>>), includes |-> JDict([users |-> JNull])]),
      JList(<<>>), JNull, JInt(7) }

HackerNewsHit(title, comment_text, points, num_comments) ==
    JDict([objectID |-> JStr(<<"4", "2">>), title |-> title, comment_text |-> comment_text,
           points |-> points, num_comments |-> num_comments])

HackerNewsPayload(hits) == JDict([hits |-> JList(hits)])

HackerNewsWellFormed ==
    { HackerNewsPayload(<<HackerNewsHit(JStr(TextHate), body, points, num_comments)>>) :
        body \in SampleBodies \cup {JStr(TextHtml)},
        points \in SampleCounters, num_comments \in SampleCounters }
    \cup { HackerNewsPayload(<<>>),
           HackerNewsPayload(<<HackerNewsHit(JNull, JStr(<<"<", "p", ">">>), JInt(1), JNull)>>) }

HackerNewsMalformed ==
    { JDict(<<>>),                                         \* {}
      JDict([hits |-> JNull]),                             \* {"hits": null}
      HackerNewsPayload(<<JStr(<<"4", "2">>)>>),           \* a hit that is a string
      HackerNewsPayload(<<JNull>>),                        \* a hit that is null
      JList(<<>>), JNull, JInt(7) }

WellFormed == [reddit |-> RedditWellFormed, x |-> XWellFormed, hackernews |-> HackerNewsWellFormed]

Malformed == [reddit |-> RedditMalformed, x |-> XMalformed, hackernews |-> HackerNewsMalformed]

\* failures of the HTTP call itself
SampleFailures ==
    { HttpFailure("status", "503 Service Unavailable"),
      HttpFailure("timeout", "ReadTimeout"),
      HttpFailure("json", "Expecting value") }

SampleResponses(src) ==
    { HttpOk(payload) : payload \in WellFormed[src] \cup Malformed[src] } \cup SampleFailures

\* X_BEARER_TOKEN: unset, empty, set
SampleTokens == { JNull, JStr(<<>>), JStr(<<"t", "o", "k">>) }

\* limit_per_source: None, 0, in range, above the range
SampleLimits == { JNull, JInt(0), JInt(3), JInt(500) }

FetchInit ==
    /\ fSource \in Sources
    /\ fToken \in (IF fSource = "x" THEN SampleTokens ELSE {JNull})
    /\ fLimit \in (IF fSource = "x" THEN SampleLimits ELSE {JNull})
    /\ fResponse \in SampleResponses(fSource)
    /\ fetched = NoResult
    /\ fRequests = 0
    /\ ScoreIdle /\ AggIdle /\ CollectIdle /\ CliIdle /\ SumIdle /\ SearchIdle

SearchReddit ==
    /\ fSource = "reddit" /\ fetched = NoResult
    /\ fRequests' = fRequests + 1
    /\ fetched' = search_reddit_posts(fResponse, fLimit, DefaultLimitPerSource)
    /\ UNCHANGED <<fSource, fToken, fLimit, fResponse, scoreVars, aggVars, collectVars, cliVars, sumVars, searchVars>>

SearchX ==
    /\ fSource = "x" /\ fetched = NoResult
    /\ fRequests' = IF XRequests(fToken) THEN fRequests + 1 ELSE fRequests
    /\ fetched' = search_x_posts(fToken, fResponse, fLimit, DefaultLimitPerSource)
    /\ UNCHANGED <<fSource, fToken, fLimit, fResponse, scoreVars, aggVars, collectVars, cliVars, sumVars, searchVars>>

SearchHackerNews ==
    /\ fSource = "hackernews" /\ fetched = NoResult
    /\ fRequests' = fRequests + 1
    /\ fetched' = search_hacker_news_posts(fResponse, fLimit, DefaultLimitPerSource)
    /\ UNCHANGED <<fSource, fToken, fLimit, fResponse, scoreVars, aggVars, collectVars, cliVars, sumVars, searchVars>>

FetchNext == SearchReddit \/ SearchX \/ SearchHackerNews

SpecFetch == FetchInit /\ [][FetchNext]_vars

(***************************************************************************)
(* Orchestrator: collect_customer_voice_signals                             *)
(***************************************************************************)
\* include_hacker_news of a service built with the defaults
DefaultIncludeHackerNews == TRUE

\* use_hn = self.include_hacker_news if include_hacker_news is None
\*          else include_hacker_news
UseHn(include_hacker_news, default) ==
    IF include_hacker_news.k = "null" THEN default ELSE Truthy(include_hacker_news)

\* the list tasks, by source
Tasks(use_hn) ==
    IF use_hn THEN <<"reddit", "x", "hackernews">> ELSE <<"reddit", "x">>

Range(seq) == { seq[i] : i \in 1..Len(seq) }

\* whether the fetcher of a source sends an HTTP request
SendsRequest(source, x_bearer_token) == source # "x" \/ XRequests(x_bearer_token)

\* the coroutine of a source's task, given the response to its request
Fetch(source, x_bearer_token, response, take) ==
    CASE source = "reddit" ->
            search_reddit_posts(response, JInt(take), DefaultLimitPerSource)
      [] source = "x" ->
            search_x_posts(x_bearer_token, response, JInt(take), DefaultLimitPerSource)
      [] source = "hackernews" ->
            search_hacker_news_posts(response, JInt(take), DefaultLimitPerSource)

\* the task that an alternative loop over asyncio.as_completed would handle
\* at position idx: the idx-th task to finish
NextToAwait_AsCompleted(tasks, idx, fin) ==
    IF idx <= Len(fin) THEN fin[idx]
    ELSE CHOOSE source \in Range(tasks) : source \notin Range(fin)

\* for source, task in tasks: the loop awaits the tasks in list order
NextToAwait(tasks, idx, fin) == tasks[idx]

\* a body of the loop that forgets the posts gathered so far when a source
\* fails
HandleOutcome_FailureDropsPosts(source, outcome, x_bearer_token, a) ==
    IF outcome.raised
    THEN [statuses |-> (source :> "error") @@ a.statuses,
          all_posts |-> <<>>,
          errors |-> (source :> outcome.exc) @@ a.errors]
    ELSE [statuses |-> (source :> (IF source = "x" /\ ~Truthy(x_bearer_token)
                                   THEN "disabled" ELSE "completed")) @@ a.statuses,
          all_posts |-> a.all_posts \o outcome.v,
          errors |-> a.errors]

\* a body of the loop that sets the status of a failed source and leaves
\* errors alone
HandleOutcome_ErrorNotRecorded(source, outcome, x_bearer_token, a) ==
    IF outcome.raised
    THEN [statuses |-> (source :> "error") @@ a.statuses,
          all_posts |-> a.all_posts,
          errors |-> a.errors]
    ELSE [statuses |-> (source :> (IF source = "x" /\ ~Truthy(x_bearer_token)
                                   THEN "disabled" ELSE "completed")) @@ a.statuses,
          all_posts |-> a.all_posts \o outcome.v,
          errors |-> a.errors]

\* a body of the loop that starts the status map afresh at every source that
\* did not fail
HandleOutcome_StatusesRebuilt(source, outcome, x_bearer_token, a) ==
    IF outcome.raised
    THEN [statuses |-> (source :> "error") @@ a.statuses,
          all_posts |-> a.all_posts,
          errors |-> (source :> outcome.exc) @@ a.errors]
    ELSE [statuses |-> (source :> (IF source = "x" /\ ~Truthy(x_bearer_token)
                                   THEN "disabled" ELSE "completed")),
          all_posts |-> a.all_posts \o outcome.v,
          errors |-> a.errors]

\* the body of the loop: try: posts = await task ... except Exception
HandleOutcome(source, outcome, x_bearer_token, a) ==
    IF outcome.raised
    THEN [statuses |-> (source :> "error") @@ a.statuses,
          all_posts |-> a.all_posts,
          errors |-> (source :> outcome.exc) @@ a.errors]
    ELSE [statuses |-> (source :> (IF source = "x" /\ ~Truthy(x_bearer_token)
                                   THEN "disabled" ELSE "completed")) @@ a.statuses,
          all_posts |-> a.all_posts \o outcome.v,
          errors |-> a.errors]

\* what follows the loop: score, sort, aggregate, return
Finish(a, half_up) ==
    LET results == [i \in 1..Len(a.all_posts) |-> _score_post_signal(a.all_posts[i])]
    IN  IF \E i \in 1..Len(results) : results[i].raised THEN Raise("OverflowError")
        ELSE LET scored_posts == SortedDesc([i \in 1..Len(results) |-> results[i].post])
             IN  Ok([posts |-> scored_posts,
                     insights |-> _aggregate_pmf_signals(scored_posts, a.statuses, half_up),
                     errors |-> IF DOMAIN a.errors = {} THEN JNull ELSE JDict(a.errors)])

\* the result size a fetcher asks its endpoint for: "limit": take,
\* "max_results": min(100, take) with X's take, "hitsPerPage": take
RequestedSize(source, limit, default_limit_per_source) ==
    CASE source = "reddit" -> TakeLimit(1, limit, default_limit_per_source)
      [] source = "x" -> Min(100, TakeLimit(10, limit, default_limit_per_source))
      [] source = "hackernews" -> TakeLimit(1, limit, default_limit_per_source)

\* the number of items the body of a response carries for the fetcher's loop
ResponseItems(source, response) ==
    IF response.kind # "ok" THEN 0
    ELSE LET found == CASE source = "reddit" -> RedditChildren(response.payload)
                        [] source = "x" -> Get(response.payload, "data", JList(<<>>))
                        [] source = "hackernews" ->
                               Get(response.payload, "hits", JList(<<>>))
             items == IF found.raised THEN found ELSE Iterate(found.v)
         IN  IF items.raised THEN 0 ELSE Len(items.v)

(***************************************************************************)
(* Orchestrator specification: one call of collect_customer_voice_signals.  *)
(* The tasks run concurrently: each sends its request and receives its      *)
(* response at any time, while the loop awaits them in list order.          *)
(***************************************************************************)
\* Reddit: two posts of equal score whose engagement rises; one post whose
\* key equals that of the X and Hacker News sample posts; a malformed body;
\* a failed call
CollectReddit ==
    { HttpOk(RedditListing(<<RedditChild(JStr(TextSlow), JStr(<<>>), JInt(90), JInt(0)),
                             RedditChild(JStr(TextSlow), JStr(<<>>), JInt(250), JInt(0))>>)),
      HttpOk(RedditListing(<<RedditChild(JStr(TextSlow), JStr(<<>>), JInt(1), JInt(0))>>)),
      HttpOk(RedditListing([i \in 1..9 |->
                               RedditChild(JStr(TextSlow), JStr(<<>>), JInt(i), JInt(0))])),
      HttpOk(JDict([data |-> JNull])),
      HttpFailure("status", "503 Service Unavailable") }

CollectX ==
    { HttpOk(XPayload(<<XTweet(JStr(TextSlow), JInt(0), JInt(0))>>)),
      HttpOk(XPayload(<<XTweet(JStr(TextWouldPay), JInt(3), JInt(-5)),
                        XTweet(JStr(TextWeather), JInt(3), JInt(0))>>)),
      HttpOk(JNull),
      HttpFailure("timeout", "ReadTimeout") }

CollectHackerNews ==
    { HttpOk(HackerNewsPayload(<<HackerNewsHit(JStr(TextSlow), JNull, JInt(1), JNull)>>)),
      HttpOk(HackerNewsPayload(<<HackerNewsHit(JStr(TextHate), JStr(TextLooking),
                                               JInt(5), JInt(2))>>)),
      HttpFailure("json", "Expecting value") }

\* limit_per_source: None, or below the floor of the X fetcher
CollectLimits == { JNull, JInt(1) }

CollectInit ==
    /\ config \in [x_bearer_token : SampleTokens,
                   limit_per_source : CollectLimits,
                   include_hacker_news : {JNull, JBool(FALSE)}]
    /\ responses \in { [reddit |-> r, x |-> t, hackernews |-> h] :
                         r \in CollectReddit, t \in CollectX, h \in CollectHackerNews }
    /\ taskState = [source \in Sources |-> "none"]
    /\ taskOutcome = [source \in Sources |-> NoResult]
    /\ requests = [source \in Sources |-> 0]
    /\ finished = <<>>
    /\ awaiting = 0
    /\ acc = [statuses |-> <<>>, all_posts |-> <<>>, errors |-> <<>>]
    /\ pc = "start"
    /\ result = NoResult
    /\ ScoreIdle /\ AggIdle /\ FetchIdle /\ CliIdle /\ SumIdle /\ SearchIdle

CollectTasks == Tasks(UseHn(config.include_hacker_news, DefaultIncludeHackerNews))

CollectTake == TakeLimit(1, config.limit_per_source, DefaultLimitPerSource)

\* the call up to its first await: the tasks are created
CreateTasks ==
    /\ pc = "start"
    /\ taskState' = [source \in Sources |->
                        IF source \in Range(CollectTasks) THEN "created" ELSE "none"]
    /\ awaiting' = 1
    /\ pc' = "loop"
    /\ UNCHANGED <<config, responses, taskOutcome, requests, finished, acc, result,
                   scoreVars, aggVars, fetchVars, cliVars, sumVars, searchVars>>

\* a task runs up to its HTTP request, or to its end if it sends none
TaskSend(source) ==
    /\ taskState[source] = "created"
    /\ IF SendsRequest(source, config.x_bearer_token)
       THEN /\ taskState' = [taskState EXCEPT ![source] = "requested"]
            /\ requests' = [requests EXCEPT ![source] = @ + 1]
            /\ UNCHANGED <<taskOutcome, finished>>
       ELSE /\ taskState' = [taskState EXCEPT ![source] = "done"]
            /\ taskOutcome' = [taskOutcome EXCEPT ![source] =
                                  Fetch(source, config.x_bearer_token, NoResult, CollectTake)]
            /\ finished' = Append(finished, source)
            /\ UNCHANGED requests
    /\ UNCHANGED <<config, responses, awaiting, acc, pc, result,
                   scoreVars, aggVars, fetchVars, cliVars, sumVars, searchVars>>

\* the response arrives and the task runs to its end
TaskReceive(source) ==
    /\ taskState[source] = "requested"
    /\ taskState' = [taskState EXCEPT ![source] = "done"]
    /\ taskOutcome' = [taskOutcome EXCEPT ![source] =
                          Fetch(source, config.x_bearer_token, responses[source],
                                CollectTake)]
    /\ finished' = Append(finished, source)
    /\ UNCHANGED <<config, responses, requests, awaiting, acc, pc, result,
                   scoreVars, aggVars, fetchVars, cliVars, sumVars, searchVars>>

\* the awaited task is done: the loop body runs, and after the last task the
\* rest of the call
AwaitTask ==
    /\ pc = "loop"
    /\ awaiting <= Len(CollectTasks)
    /\ LET source == NextToAwait(CollectTasks, awaiting, finished)
           a == HandleOutcome(source, taskOutcome[source], config.x_bearer_token, acc)
       IN  /\ taskState[source] = "done"
           /\ acc' = a
           /\ awaiting' = awaiting + 1
           /\ IF awaiting < Len(CollectTasks)
              THEN UNCHANGED <<pc, result>>
              ELSE \E half_up \in BOOLEAN :
                       /\ result' = Finish(a, half_up)
                       /\ pc' = IF result'.raised THEN "raised" ELSE "returned"
    /\ UNCHANGED <<config, responses, taskState, taskOutcome, requests, finished,
                   scoreVars, aggVars, fetchVars, cliVars, sumVars, searchVars>>

CollectNext ==
    \/ CreateTasks
    \/ \E source \in Sources : TaskSend(source)
    \/ \E source \in Sources : TaskReceive(source)
    \/ AwaitTask

SpecCollect == CollectInit /\ [][CollectNext]_vars

(***************************************************************************)
(* Command line: from_env and cli_main                                      *)
(***************************************************************************)
\* os.getenv(name, default): value is the variable's value, JNull if unset
Getenv(value, default) == IF value.k = "null" THEN default ELSE value.s

\* s without a leading sign
Unsigned(s) == IF s # <<>> /\ s[1] \in {"+", "-"} THEN Tail(s) ELSE s

IsDigit(c) == \E n \in 1..10 : Digits[n] = c

\* digits with at most one ".", at least one digit
IsMantissa(m) ==
    LET dots == {i \in 1..Len(m) : m[i] = "."}
    IN  /\ Cardinality(dots) <= 1
        /\ Len(m) > Cardinality(dots)
        /\ \A i \in (1..Len(m)) \ dots : IsDigit(m[i])

IsDecimal(u) ==
    LET es == {i \in 1..Len(u) : u[i] = "e"}
    IN  IF es = {} THEN IsMantissa(u)
        ELSE /\ Cardinality(es) = 1
             /\ LET i == CHOOSE j \in es : TRUE
                    exponent == Unsigned(SubSeq(u, i + 1, Len(u)))
                IN  /\ IsMantissa(SubSeq(u, 1, i - 1))
                    /\ exponent # <<>>
                    /\ \A j \in 1..Len(exponent) : IsDigit(exponent[j])

\* whether float(s) accepts the str s: surrounding whitespace, a sign, then
\* inf, infinity or nan in any case, or a decimal with optional exponent
\* (digit separators "_" and non-ASCII digits are left out)
IsFloatLiteral(s) ==
    LET u == Unsigned(Lower(Strip(s)))
    IN  \/ u \in {<<"i", "n", "f">>, <<"n", "a", "n">>,
                  <<"i", "n", "f", "i", "n", "i", "t", "y">>}
        \/ IsDecimal(u)

\* SocialSignalsService.from_env: the service, or the ValueError of float()
from_env(env) ==
    LET raw_limit == Getenv(env.SOCIAL_SIGNAL_LIMIT_PER_SOURCE, <<"2", "5">>)
        limit == IF IsIntLiteral(raw_limit) THEN IntLiteral(raw_limit) ELSE 25
        include_hn_raw == Lower(Strip(Getenv(env.SOCIAL_SIGNAL_INCLUDE_HN,
                                             <<"t", "r", "u", "e">>)))
        include_hn == include_hn_raw \notin {<<"f", "a", "l", "s", "e">>, <<"0">>,
                                             <<"n", "o">>}
        timeout == Getenv(env.SOCIAL_SIGNAL_TIMEOUT_SECONDS, <<"2", "5">>)
    IN  IF ~IsFloatLiteral(timeout) THEN Raise("ValueError")
        ELSE Ok([x_bearer_token |-> env.X_BEARER_TOKEN,
                 timeout_seconds |-> Strip(timeout),
                 default_limit_per_source |-> Max(1, Min(100, limit)),
                 include_hacker_news |-> include_hn])

(***************************************************************************)
(* Command line specification: one run of cli_main on a command line that   *)
(* parses.  The collection call is taken by its outcome: it returns, or it  *)
(* raises an exception that no source handler catches (as math.log1p does   *)
(* on an engagement beyond the float range).                                *)
(***************************************************************************)
SampleTimeouts ==
    { JNull, JStr(<<"2", "5">>), JStr(<<" ", "2", ".", "5", " ">>), JStr(<<"1", "e", "3">>),
      JStr(<<"i", "n", "f">>), JStr(<<"-", ".", "5">>), JStr(<<"a", "b", "c">>), JStr(<<>>),
      JStr(<<".">>), JStr(<<"2", "5", "s">>), JStr(<<"1", "e">>) }

SampleEnvLimits == { JNull, JStr(<<"7">>), JStr(<<"a", "b", "c">>), JStr(<<"5", "0", "0">>) }

SampleEnvIncludeHn == { JNull, JStr(<<" ", "N", "o", " ">>), JStr(<<"y", "e", "s">>) }

CliInit ==
    /\ cliEnv \in [SOCIAL_SIGNAL_TIMEOUT_SECONDS : SampleTimeouts,
                   SOCIAL_SIGNAL_LIMIT_PER_SOURCE : SampleEnvLimits,
                   SOCIAL_SIGNAL_INCLUDE_HN : SampleEnvIncludeHn,
                   X_BEARER_TOKEN : {JNull}]
    /\ cliArgs \in [summary_only : BOOLEAN, exclude_hn : BOOLEAN]
    /\ cliCallRaises \in BOOLEAN
    /\ cliPc = "start"
    /\ cliService = NoResult
    /\ cliOutcome = NoResult
    /\ cliStdout = "nothing"
    /\ cliLogged = FALSE
    /\ ScoreIdle /\ AggIdle /\ FetchIdle /\ CollectIdle /\ SumIdle /\ SearchIdle

\* cli_main up to the try: the service is built from the environment; an
\* exception of from_env leaves cli_main
BuildService ==
    /\ cliPc = "start"
    /\ LET built == from_env(cliEnv)
       IN  IF built.raised
           THEN /\ cliPc' = "done"
                /\ cliOutcome' = [k |-> "propagated", exc |-> built.exc]
                /\ UNCHANGED cliService
           ELSE /\ cliPc' = "built"
                /\ cliService' = built.v
                /\ UNCHANGED cliOutcome
    /\ UNCHANGED <<cliEnv, cliArgs, cliCallRaises, cliStdout, cliLogged,
                   scoreVars, aggVars, fetchVars, collectVars, sumVars, searchVars>>

\* the try of cli_main: the call, the print, the except, the return
RunCollection ==
    /\ cliPc = "built"
    /\ cliPc' = "done"
    /\ IF cliCallRaises
       THEN /\ cliLogged' = TRUE
            /\ cliOutcome' = [k |-> "return", code |-> 1]
            /\ UNCHANGED cliStdout
       ELSE /\ cliStdout' = IF cliArgs.summary_only THEN "summary" ELSE "json"
            /\ cliOutcome' = [k |-> "return", code |-> 0]
            /\ UNCHANGED cliLogged
    /\ UNCHANGED <<cliEnv, cliArgs, cliCallRaises, cliService,
                   scoreVars, aggVars, fetchVars, collectVars, sumVars, searchVars>>

CliNext == BuildService \/ RunCollection

SpecCli == CliInit /\ [][CliNext]_vars

(***************************************************************************)
(* summarize_customer_voice_signals.  The returned string is held as the    *)
(* sequence of its segments, in the order the f-strings put them: the       *)
(* fixed sentence each segment belongs to, and the value it interpolates.   *)
(***************************************************************************)
\* the keys of a dict over sources in insertion order: the loop of
\* collect_customer_voice_signals enters the sources in the order of tasks
KeysInOrder(map) ==
    SelectSeq(<<"reddit", "x", "hackernews">>, LAMBDA source : \E k \in DOMAIN map : k = source)

\* ", ".join(f"{source}:{status}" ...), or "no_sources"
StatusSummary(source_status) ==
    LET keys == KeysInOrder(source_status)
    IN  IF keys = <<>> THEN <<[kind |-> "no_sources"]>>
        ELSE [i \in 1..Len(keys) |->
                 [kind |-> "status", source |-> keys[i], status |-> source_status[keys[i]]]]

\* the excerpts kept from 4 snippets instead of 3
TopReferences_FirstFour(top_snippets) ==
    LET cut == [i \in 1..Len(Take(top_snippets, 4)) |-> _snippet(top_snippets[i].snippet, 120)]
    IN  SelectSeq(cut, LAMBDA snippet : snippet # <<>>)

\* top_references: _snippet(item["snippet"], max_len=120) of the first 3
\* snippets, the empty ones dropped
TopReferences(top_snippets) ==
    LET cut == [i \in 1..Len(Take(top_snippets, 3)) |-> _snippet(top_snippets[i].snippet, 120)]
    IN  SelectSeq(cut, LAMBDA snippet : snippet # <<>>)

\* " | ".join(top_references), or the sentence that none was captured
TopReferencesText(top_snippets) ==
    LET top_references == TopReferences(top_snippets)
    IN  IF top_references = <<>> THEN <<[kind |-> "no_excerpts"]>>
        ELSE [i \in 1..Len(top_references) |->
                 [kind |-> "excerpt", chars |-> top_references[i]]]

\* "; ".join(f"{source}: {error}" ...)
ErrorSummary(errors) ==
    LET keys == KeysInOrder(errors)
    IN  [i \in 1..Len(keys) |->
            [kind |-> "error", source |-> keys[i], message |-> errors[keys[i]]]]

\* the part of summarize_customer_voice_signals after the awaited call
summarize_customer_voice_signals(res) ==
    LET counts == res.insights.counts
        errors == IF res.errors.k = "null" THEN <<>> ELSE res.errors.d
        score == res.insights.pmf_signal_score
        level == res.insights.signal_level
        status_summary == StatusSummary(res.insights.source_status)
        top_references_text == TopReferencesText(res.insights.top_pain_snippets)
        base_summary ==
            <<[kind |-> "level", level |-> level],
              [kind |-> "score", n |-> score],
              [kind |-> "total_posts", n |-> counts.total_posts],
              [kind |-> "pain_posts", n |-> counts.pain_posts],
              [kind |-> "intent_posts", n |-> counts.intent_posts],
              [kind |-> "buying_posts", n |-> counts.buying_posts]>> \o status_summary
    IN  IF level = "insufficient_data"
        THEN <<[kind |-> "insufficient"]>> \o status_summary
        ELSE IF DOMAIN errors # {}
        THEN base_summary \o ErrorSummary(errors) \o top_references_text
        ELSE base_summary \o top_references_text

(***************************************************************************)
(* Summary specification: one call of summarize_customer_voice_signals,     *)
(* from the return of the collection call it awaits.                        *)
(***************************************************************************)
\* a pain text of 143 characters once compacted: longer than an excerpt
TextLong ==
    TextFrustrating \o TextFrustrating \o TextFrustrating \o TextFrustrating
        \o TextFrustrating \o TextFrustrating

\* a pain text of 191 characters once compacted: longer than a snippet
TextLonger == TextLong \o TextFrustrating \o TextFrustrating

SummaryPost(source, text, engagement) ==
    [source |-> source, id |-> JNull, url |-> JNull, title |-> JNull, text |-> JStr(text),
     engagement |-> JInt(engagement)]

\* the lists all_posts of the sample calls, the posts coming from source
SummaryPosts(source) ==
    { <<>>,
      <<SummaryPost(source, TextWeather, 5)>>,
      <<SummaryPost(source, TextSlow, 0)>>,
      <<[SummaryPost(source, <<>>, 5) EXCEPT !.title = JStr(TextHate)]>>,
      <<SummaryPost(source, TextLong, 3), SummaryPost(source, TextSlow, 50),
        SummaryPost(source, TextLonger, 7), SummaryPost(source, TextLong, 90),
        SummaryPost(source, TextWeather, 1)>> }

\* str(exc) of the failure of a source
SampleMessage ==
    [reddit |-> "503 Service Unavailable", x |-> "ReadTimeout",
     hackernews |-> "Expecting value"]

\* the locals of collect_customer_voice_signals after its loop: statuses of
\* the launched sources, the message of each failed one, posts of a
\* completed one
SummaryAccs ==
    { [statuses |-> st,
       all_posts |-> posts,
       errors |-> [source \in {k \in DOMAIN st : st[k] = "error"} |-> SampleMessage[source]]] :
        st \in ([{"reddit", "x"} -> Statuses] \cup [Sources -> Statuses]),
        posts \in UNION { SummaryPosts(source) : source \in Sources } }

SumInit ==
    /\ sumResult \in { Finish(a, half_up).v :
                         a \in { b \in SummaryAccs :
                                   \A i \in 1..Len(b.all_posts) :
                                       /\ b.all_posts[i].source \in DOMAIN b.statuses
                                       /\ b.statuses[b.all_posts[i].source] = "completed" },
                         half_up \in BOOLEAN }
    /\ summary = NoResult
    /\ ScoreIdle /\ AggIdle /\ FetchIdle /\ CollectIdle /\ CliIdle /\ SearchIdle

Summarize ==
    /\ summary = NoResult
    /\ summary' = summarize_customer_voice_signals(sumResult)
    /\ UNCHANGED <<sumResult, scoreVars, aggVars, fetchVars, collectVars, cliVars,
                   searchVars>>

SumNext == Summarize

SpecSummary == SumInit /\ [][SumNext]_vars

(***************************************************************************)
(* Competitor search: company_search.py                                     *)
(***************************************************************************)
\* _clamp_competitor_limit(value, default=25)
_clamp_competitor_limit(value, default) ==
    Max(1, Min(50, IF Truthy(value) THEN value.n ELSE default))

\* " | ".join(parts)
JoinBar(parts) ==
    LET F[i \in 0..Len(parts)] ==
            IF i = 0 THEN <<>>
            ELSE IF i = 1 THEN parts[1]
            ELSE F[i - 1] \o <<" ", "|", " ">> \o parts[i]
    IN  F[Len(parts)]

NonEmpty(chars) == chars # <<>>

\* the first key of keys that the dict holds with a truthy value, "" if none
FirstTruthyKey(d, keys) ==
    LET hits == {i \in 1..Len(keys) : keys[i] \in DOMAIN d /\ Truthy(d[keys[i]])}
    IN  IF hits = {} THEN ""
        ELSE keys[CHOOSE i \in hits : \A j \in hits : i <= j]

StringifyKeys == <<"text", "value", "answer", "summary", "output", "result", "results">>

\* _stringify(value)
RECURSIVE _stringify(_)
_stringify(value) ==
    CASE value.k = "null" -> <<>>
      [] value.k = "str" -> JoinSplit(value.s)
      [] value.k = "list" ->
            JoinBar(SelectSeq([i \in 1..Len(value.items) |-> _stringify(value.items[i])],
                              NonEmpty))
      [] value.k = "dict" ->
            LET key == FirstTruthyKey(value.d, StringifyKeys)
            IN  IF key = "" THEN <<>> ELSE _stringify(value.d[key])
      [] OTHER -> Format(value)

\* data.get(key) if isinstance(data.get(key), dict) else {}
DictOrEmpty(data, key) ==
    IF GetOrNone(data, key).k = "dict" THEN GetOrNone(data, key) ELSE JDict(<<>>)

\* _create_company_webset after response.raise_for_status(): the webset id
\* of the answer, RuntimeError if it holds none
WebsetIdOf(data) ==
    IF data.k # "dict" THEN Raise("AttributeError")
    ELSE LET outer == Or(GetOrNone(data, "id"), GetOrNone(data, "websetId"))
             webset_id == IF Truthy(outer) THEN outer
                          ELSE GetOrNone(DictOrEmpty(data, "webset"), "id")
         IN  IF Truthy(webset_id) THEN Ok(webset_id)
             ELSE Raise("Exa response did not include a webset id")

\* the status _wait_for_webset_idle reads from the answer to a poll
PollStatus(data) ==
    IF data.k # "dict" THEN Raise("AttributeError")
    ELSE LET outer == Lower(_stringify(GetOrNone(data, "status")))
         IN  Ok(IF outer # <<>> THEN outer
                ELSE Lower(_stringify(GetOrNone(DictOrEmpty(data, "webset"), "status"))))

StatusIdle == <<"i", "d", "l", "e">>

StatusDone == <<"d", "o", "n", "e">>

StatusCompleted == <<"c", "o", "m", "p", "l", "e", "t", "e", "d">>

StatusFailed == <<"f", "a", "i", "l", "e", "d">>

StatusError == <<"e", "r", "r", "o", "r">>

StatusCancelled == <<"c", "a", "n", "c", "e", "l", "l", "e", "d">>

\* (mutant of FinishedStatuses: a cancelled webset counts as finished)
FinishedStatuses_WithCancelled == { StatusIdle, StatusDone, StatusCompleted, StatusCancelled }

\* if status in {"idle", "done", "completed"}: return
FinishedStatuses == { StatusIdle, StatusDone, StatusCompleted }

\* if status in {"failed", "error", "cancelled"}: raise RuntimeError
FailedStatuses == { StatusFailed, StatusError, StatusCancelled }

\* timeout_seconds of _wait_for_webset_idle
TimeoutSeconds == 90

\* await asyncio.sleep(2)
SleepSeconds == 2

\* int(next_offset) of a value that is not None
IntOf(value) ==
    CASE value.k = "int" -> Ok(value.n)
      [] value.k = "bool" -> Ok(IF value.b THEN 1 ELSE 0)
      [] value.k = "float" ->
            Ok(IF value.tenths >= 0 THEN value.tenths \div 10
               ELSE -((-value.tenths) \div 10))
      [] value.k = "inf" -> Raise("OverflowError")
      [] value.k = "nan" -> Raise("ValueError")
      [] value.k = "str" ->
            IF IsIntLiteral(value.s) THEN Ok(IntLiteral(value.s)) ELSE Raise("ValueError")
      [] OTHER -> Raise("TypeError")

\* batch = data.get("data") if isinstance(data.get("data"), list) else data.get("items")
BatchOf(data) ==
    IF GetOrNone(data, "data").k = "list" THEN GetOrNone(data, "data")
    ELSE GetOrNone(data, "items")

IsObject(item) == item.k = "dict"

\* the for loop over the batch: the objects of the batch are appended until
\* the list holds limit items
AppendObjects(collected, batch, limit) ==
    Take(collected \o SelectSeq(batch, IsObject), Max(limit, Len(collected)))

\* competitors = [self._format_competitor(item, index + 1) ...]: the fields
\* drawn from the item are left out, each competitor is its rank and its item
FormatCompetitors(collected) == [i \in 1..Len(collected) |-> [rank |-> i, item |-> collected[i]]]

\* one pass of the loop of _fetch_webset_items, from the answer to the items
\* request to the next loop test: the new items and offset, and whether the
\* loop goes on to another request
FetchStep(collected, offset, response, limit) ==
    IF response.kind # "ok" THEN Raise(response.message)
    ELSE IF response.payload.k # "dict" THEN Raise("AttributeError")
    ELSE LET data == response.payload
             batch == BatchOf(data)
             next_offset == GetOrNone(data, "nextOffset")
         IN  IF batch.k # "list" \/ ~Truthy(batch)
             THEN Ok([collected |-> collected, offset |-> offset, again |-> FALSE])
             ELSE LET grown == AppendObjects(collected, batch.items, limit)
                  IN  IF next_offset.k = "null"
                      THEN Ok([collected |-> grown, offset |-> offset, again |-> FALSE])
                      ELSE IF IntOf(next_offset).raised THEN IntOf(next_offset)
                      ELSE Ok([collected |-> grown, offset |-> IntOf(next_offset).v,
                               again |-> Len(grown) < limit])

(***************************************************************************)
(* Competitor search specification: one call of                             *)
(* find_top_competitors_for_idea against a server that answers each request *)
(* with any of the sample answers                                           *)
(***************************************************************************)
\* the largest number of requests to one endpoint that is counted exactly
MaxCounted == 4

SampleExaKeys == { JNull, JStr(<<>>), JStr(<<"k">>) }

\* the limit argument: absent, within the range, below it
SampleCompetitorLimits == { JNull, JInt(1), JInt(3), JInt(-4) }

WebsetId == JStr(<<"w", "1">>)

CreateResponses ==
    { HttpOk(JDict([id |-> WebsetId])),
      HttpOk(JDict([websetId |-> WebsetId])),
      HttpOk(JDict([id |-> JNull, webset |-> JDict([id |-> WebsetId])])),
      HttpOk(JDict([webset |-> JStr(<<"w">>)])),
      HttpOk(JList(<<>>)),
      HttpFailure("status", "401 Unauthorized") }

SamplePollStatuses ==
    { JStr(<<"i", "d", "l", "e">>), JStr(<<" ", "D", "o", "n", "e", " ">>), JStr(<<"C", "O", "M", "P", "L", "E", "T", "E", "D">>), JStr(<<"r", "u", "n", "n", "i", "n", "g">>), JStr(<<"p", "e", "n", "d", "i", "n", "g">>),
      JStr(<<"f", "a", "i", "l", "e", "d">>), JStr(<<"E", "r", "r", "o", "r">>), JStr(<<"c", "a", "n", "c", "e", "l", "l", "e", "d">>), JStr(<<>>), JNull,
      JDict([text |-> JStr(<<"i", "d", "l", "e">>)]), JList(<<JStr(<<"r", "u", "n", "n", "i", "n", "g">>), JStr(<<"i", "d", "l", "e">>)>>) }

PollResponses ==
    { HttpOk(JDict([status |-> v])) : v \in SamplePollStatuses }
    \cup { HttpOk(JDict([webset |-> JDict([status |-> v])])) :
              v \in { JStr(<<" ", "D", "o", "n", "e", " ">>), JStr(<<"r", "u", "n", "n", "i", "n", "g">>), JStr(<<"c", "a", "n", "c", "e", "l", "l", "e", "d">>) } }
    \cup { HttpOk(JDict([status |-> JStr(<<>>), webset |-> JStr(<<"i", "d", "l", "e">>)])),
           HttpOk(JNull),
           HttpFailure("timeout", "ReadTimeout") }

\* seconds an Exa request may take
RequestSeconds == { 0, 45 }

ItemObject(n) == JDict([id |-> JInt(n)])

SampleItems == { ItemObject(1), JStr(<<"x">>) }

SampleBatches == { JList(b) : b \in SeqsUpTo(SampleItems, 2) } \cup { JNull }

SampleNextOffsets == { JNull, JInt(0), JInt(1), JStr(<<"a", "b", "c">>) }

ItemsResponses ==
    { HttpOk(JDict([data |-> b, nextOffset |-> n])) :
          b \in SampleBatches, n \in SampleNextOffsets }
    \cup { HttpOk(JDict([data |-> JStr(<<"x">>), items |-> b, nextOffset |-> JInt(1)])) :
              b \in SampleBatches }
    \cup { HttpOk(JDict([items |-> JList(<<ItemObject(1)>>)])),
           HttpOk(JList(<<ItemObject(1)>>)),
           HttpFailure("status", "500 Internal Server Error") }

CsInit ==
    /\ csConfig \in [exa_api_key : SampleExaKeys,
                     competitor_limit : {_clamp_competitor_limit(JInt(2), 25)},
                     limit : SampleCompetitorLimits]
    /\ csPc = "start"
    /\ csClock = 0
    /\ csRequests = [create |-> 0, poll |-> 0, items |-> 0]
    /\ csStatus = <<>>
    /\ csWebsetId = JNull
    /\ csItems = <<>>
    /\ csOffset = 0
    /\ csResult = NoResult
    /\ ScoreIdle /\ AggIdle /\ FetchIdle /\ CollectIdle /\ CliIdle /\ SumIdle

\* safe_limit = _clamp_competitor_limit(limit or self.competitor_limit)
SafeLimit ==
    _clamp_competitor_limit(Or(csConfig.limit, JInt(csConfig.competitor_limit)), 25)

Sent(endpoint) ==
    [csRequests EXCEPT ![endpoint] = Min(MaxCounted, @ + 1)]

CsRaise(exc) ==
    /\ csPc' = "raised"
    /\ csResult' = Raise(exc)

\* the idea summary arrives, or the summarizer raises: without an Exa key
\* the call returns, with one it sends the create request
IdeaSummarized ==
    /\ csPc = "start"
    /\ \E summarizer_raises \in BOOLEAN :
           IF summarizer_raises
           THEN CsRaise("summarizer") /\ UNCHANGED csRequests
           ELSE IF ~Truthy(csConfig.exa_api_key)
           THEN /\ csPc' = "returned"
                /\ csResult' = Ok([status |-> "disabled", competitors |-> <<>>,
                                   error |-> "EXA_API_KEY not configured"])
                /\ UNCHANGED csRequests
           ELSE /\ csPc' = "create"
                /\ csRequests' = Sent("create")
                /\ UNCHANGED csResult
    /\ UNCHANGED <<csConfig, csClock, csStatus, csWebsetId, csItems, csOffset,
                   scoreVars, aggVars, fetchVars, collectVars, cliVars, sumVars>>

\* the create request is answered: with a webset id the wait begins and the
\* first poll is sent
CreateAnswered ==
    /\ csPc = "create"
    /\ \E response \in CreateResponses :
           LET webset_id == IF response.kind # "ok" THEN Raise(response.message)
                            ELSE WebsetIdOf(response.payload)
           IN  IF webset_id.raised
               THEN CsRaise(webset_id.exc) /\ UNCHANGED <<csRequests, csWebsetId>>
               ELSE /\ csWebsetId' = webset_id.v
                    /\ csRequests' = Sent("poll")
                    /\ csPc' = "poll"
                    /\ UNCHANGED csResult
    /\ csClock' = 0
    /\ UNCHANGED <<csConfig, csStatus, csItems, csOffset,
                   scoreVars, aggVars, fetchVars, collectVars, cliVars, sumVars>>

\* a poll is answered: a finished status ends the wait and the first items
\* request is sent, a failed status raises, any other status leads to the sleep
PollAnswered ==
    /\ csPc = "poll"
    /\ \E response \in PollResponses, seconds \in RequestSeconds :
           LET status == IF response.kind # "ok" THEN Raise(response.message)
                         ELSE PollStatus(response.payload)
           IN  /\ csClock' = Min(TimeoutSeconds, csClock + seconds)
               /\ IF status.raised
                  THEN CsRaise(status.exc) /\ UNCHANGED <<csRequests, csStatus>>
                  ELSE /\ csStatus' = status.v
                       /\ IF status.v \in FinishedStatuses
                          THEN /\ csRequests' = Sent("items")
                               /\ csPc' = "items"
                               /\ UNCHANGED csResult
                          ELSE IF status.v \in FailedStatuses
                          THEN /\ CsRaise("Exa webset finished with status")
                               /\ UNCHANGED csRequests
                          ELSE /\ csPc' = "sleep"
                               /\ UNCHANGED <<csRequests, csResult>>
    /\ csItems' = <<>>
    /\ csOffset' = 0
    /\ UNCHANGED <<csConfig, csWebsetId,
                   scoreVars, aggVars, fetchVars, collectVars, cliVars, sumVars>>

\* the sleep is over: before the deadline the next poll is sent, after it
\* TimeoutError is raised
Slept ==
    /\ csPc = "sleep"
    /\ csClock' = Min(TimeoutSeconds, csClock + SleepSeconds)
    /\ IF csClock' < TimeoutSeconds
       THEN /\ csRequests' = Sent("poll")
            /\ csPc' = "poll"
            /\ UNCHANGED csResult
       ELSE /\ CsRaise("Timed out while waiting for Exa webset to complete")
            /\ UNCHANGED csRequests
    /\ UNCHANGED <<csConfig, csStatus, csWebsetId, csItems, csOffset,
                   scoreVars, aggVars, fetchVars, collectVars, cliVars, sumVars>>

\* an items request is answered: the loop goes on with another request, or
\* it ends and the call returns the competitors
ItemsAnswered ==
    /\ csPc = "items"
    /\ \E response \in ItemsResponses :
           LET step == FetchStep(csItems, csOffset, response, SafeLimit)
           IN  IF step.raised
               THEN CsRaise(step.exc) /\ UNCHANGED <<csRequests, csItems, csOffset>>
               ELSE /\ csItems' = step.v.collected
                    /\ csOffset' = step.v.offset
                    /\ IF step.v.again
                       THEN /\ csRequests' = Sent("items")
                            /\ UNCHANGED <<csPc, csResult>>
                       ELSE /\ csPc' = "returned"
                            /\ csResult' =
                                  Ok([status |-> "completed",
                                      webset_id |-> csWebsetId,
                                      competitors |->
                                          FormatCompetitors(Take(step.v.collected, SafeLimit))])
                            /\ UNCHANGED csRequests
    /\ UNCHANGED <<csConfig, csClock, csStatus, csWebsetId,
                   scoreVars, aggVars, fetchVars, collectVars, cliVars, sumVars>>

CsNext ==
    \/ IdeaSummarized
    \/ CreateAnswered
    \/ PollAnswered
    \/ Slept
    \/ ItemsAnswered

SpecCompetitors == CsInit /\ [][CsNext]_vars

\* every await of the call ends: the HTTP client and the sleep have timeouts
SpecCompetitorsFair == SpecCompetitors /\ WF_vars(CsNext)

(***************************************************************************)
(* Properties of the scorer                                                 *)
(***************************************************************************)
Returned(r) == "raised" \in DOMAIN r /\ ~r.raised

\* C6: for every post (any title and text, any keyword hit counts, any
\* engagement value: negative, missing, unparsable, fractional, huge) the
\* signal_score that _score_post_signal produces lies in [0.0, 1.0].
C6_SignalScoreInUnitInterval ==
    Returned(scored) =>
        /\ scored.post.signal_score >= 0
        /\ scored.post.signal_score <= 10000

\* every category saturated and the boost at its cap: the weighted sum is 1.25
C6_Witness ==
    /\ Returned(scored)
    /\ scored.post.pain_hits >= 2
    /\ scored.post.intent_hits >= 2
    /\ scored.post.buying_hits >= 2
    /\ scored.post.switch_hits >= 2
    /\ post.engagement = JInt(250000)
    /\ scored.post.signal_score = 10000

(***************************************************************************)
(* Properties of the aggregator                                             *)
(***************************************************************************)
Aggregated == "signal_level" \in DOMAIN insights

ZeroCounts ==
    [total_posts |-> 0, pain_posts |-> 0, intent_posts |-> 0, buying_posts |-> 0,
     switch_posts |-> 0]

\* C5: signal_level is "insufficient_data" if and only if zero posts were
\* aggregated; then pmf_signal_score is 0, every count is 0 and
\* top_pain_snippets is empty, whatever the source_status map holds.
C5_InsufficientIffNoPosts ==
    Aggregated =>
        /\ (insights.signal_level = "insufficient_data") <=> (Len(aggPosts) = 0)
        /\ Len(aggPosts) = 0 =>
              /\ insights.pmf_signal_score = 0
              /\ insights.counts = ZeroCounts
              /\ insights.top_pain_snippets = <<>>
              /\ insights.source_status = aggStatuses

\* no post, and a status map in which every source completed
C5_Witness ==
    /\ Aggregated
    /\ Len(aggPosts) = 0
    /\ aggStatuses = [src \in Sources |-> "completed"]
    /\ insights.signal_level = "insufficient_data"

\* C7: for every list of scored posts and every source_status map the
\* pmf_signal_score is an integer in 0..100.
C7_PmfScoreInRange ==
    Aggregated => insights.pmf_signal_score \in 0..100

\* more than 40 posts, all saturated, every source completed: the score is 100
C7_Witness ==
    /\ Aggregated
    /\ Len(aggPosts) > 40
    /\ \A i \in 1..Len(aggPosts) : aggPosts[i].signal_score = 10000
    /\ aggStatuses = [src \in Sources |-> "completed"]
    /\ insights.pmf_signal_score = 100

\* C8: top_pain_snippets has at most 8 entries, and every entry is the
\* snippet of a post with pain_hits > 0 and a non-empty text.
C8_SnippetsBoundedAndFromPainPosts ==
    Aggregated =>
        /\ Len(insights.top_pain_snippets) <= 8
        /\ \A k \in 1..Len(insights.top_pain_snippets) :
              LET e == insights.top_pain_snippets[k]
              IN  /\ e.snippet # <<>>
                  /\ \E i \in 1..Len(aggPosts) : aggPosts[i].url = e.url
                  /\ \A i \in 1..Len(aggPosts) :
                        aggPosts[i].url = e.url =>
                            /\ aggPosts[i].pain_hits > 0
                            /\ Truthy(aggPosts[i].text)
                            /\ e.snippet = _snippet(aggPosts[i].text.s, 180)
                            /\ e.signal_score = aggPosts[i].signal_score
                            /\ e.source = aggPosts[i].source

\* more than 8 pain posts with a text, beside pain posts without text: the
\* list is cut at 8
C8_Witness ==
    /\ Aggregated
    /\ Cardinality({i \in 1..Len(aggPosts) : HasPain(aggPosts[i]) /\ HasText(aggPosts[i])}) > 8
    /\ \E i \in 1..Len(aggPosts) : HasPain(aggPosts[i]) /\ ~HasText(aggPosts[i])
    /\ Len(insights.top_pain_snippets) = 8

HasPainAndText(p) == HasPain(p) /\ HasText(p)

\* the snippets of the first 8 posts of the list obtained by filtering to
\* pain_hits > 0 and non-empty text first and sorting afterwards
SnippetsFilteredFirst(scored_posts) ==
    LET kept == Take(SortedDesc(SelectSeqBy(scored_posts, HasPainAndText)), 8)
    IN  [i \in 1..Len(kept) |->
            [source |-> kept[i].source,
             url |-> kept[i].url,
             snippet |-> _snippet(kept[i].text.s, 180),
             signal_score |-> kept[i].signal_score]]

\* C16: top_pain_snippets is the first 8 elements of the list obtained by
\* filtering the scored posts to pain_hits > 0 and non-empty text and then
\* sorting descending by (signal_score, engagement); with at least 8 such
\* posts it has exactly 8 entries, even when pain posts with an empty text
\* sort ahead of them.
C16_SnippetsFilteredBeforeSlice ==
    Aggregated /\ Len(aggPosts) > 0 =>
        /\ insights.top_pain_snippets = SnippetsFilteredFirst(aggPosts)
        /\ Cardinality({i \in 1..Len(aggPosts) : HasPainAndText(aggPosts[i])}) >= 8 =>
              Len(insights.top_pain_snippets) = 8

(***************************************************************************)
(* Properties of the fetchers                                               *)
(***************************************************************************)
\* the call of the fetcher has returned a list of posts
FetchReturned == fetched # NoResult /\ ~fetched.raised

FetchedPosts == IF FetchReturned THEN fetched.v ELSE <<>>

\* the parsed raw counters a post keeps next to its engagement
RawCounters(p) ==
    CASE p.source = "reddit" -> <<p.upvotes, p.comments>>
      [] p.source = "x" -> <<p.likes, p.replies, p.reposts, p.quotes>>
      [] p.source = "hackernews" -> <<p.points, p.comments>>

SumCounters(cs) ==
    LET F[i \in 0..Len(cs)] == IF i = 0 THEN 0 ELSE F[i - 1] + cs[i].n
    IN  F[Len(cs)]

\* C9: the engagement of every post a fetcher produces is the sum of the
\* source's raw counters and is never negative, whatever counter values the
\* response carries (negative integers included).
C9_EngagementIsNonNegativeSum ==
    \A i \in 1..Len(FetchedPosts) :
        LET p == FetchedPosts[i]
        IN  /\ p.engagement.n = SumCounters(RawCounters(p))
            /\ p.engagement.n >= 0

\* the 2xx response carried a body whose nested structure is absent or
\* malformed, and the fetcher has been called (for X: with a token, so that
\* the body is read at all)
MalformedBodyFetched ==
    /\ fetched # NoResult
    /\ fResponse.kind = "ok"
    /\ fResponse.payload \in Malformed[fSource]
    /\ fSource = "x" => XRequests(fToken)

\* C10: on a 2xx response whose JSON body has an absent or malformed nested
\* structure the fetcher returns an empty sequence instead of raising.
C10_MalformedBodyGivesEmpty ==
    MalformedBodyFetched => ~fetched.raised /\ fetched.v = <<>>

(***************************************************************************)
(* Properties of the orchestrator                                           *)
(***************************************************************************)
CollectReturned == pc = "returned"

ReturnedPosts == result.v.posts

ReturnedStatuses == result.v.insights.source_status

ReturnedErrors == IF result.v.errors.k = "null" THEN <<>> ELSE result.v.errors.d

Has(map, key) == \E k \in DOMAIN map : k = key

\* the task of a source has finished by raising
SourceRaised(source) == taskState[source] = "done" /\ taskOutcome[source].raised

\* every post the fetcher of the source returned is in the returned posts,
\* scored
PostsIncluded(source) ==
    \A i \in 1..Len(taskOutcome[source].v) :
        \E j \in 1..Len(ReturnedPosts) :
            ReturnedPosts[j] = _score_post_signal(taskOutcome[source].v[i]).post

\* C1: whichever of the launched sources raise (all of them included) and
\* in whatever order the tasks finish, the call returns normally; a source
\* that raised has status "error", its message in errors and no post in the
\* result; every post of a source that did not raise is in the result, scored.
C1_FailureIsolation ==
    /\ pc # "raised"
    /\ CollectReturned =>
           \A source \in Range(CollectTasks) :
               IF SourceRaised(source)
               THEN /\ ReturnedStatuses[source] = "error"
                    /\ Has(ReturnedErrors, source)
                    /\ ReturnedErrors[source] = taskOutcome[source].exc
                    /\ \A j \in 1..Len(ReturnedPosts) : ReturnedPosts[j].source # source
               ELSE /\ ReturnedStatuses[source] # "error"
                    /\ ~Has(ReturnedErrors, source)
                    /\ PostsIncluded(source)

\* the call returned although a source that finished first had raised, with
\* the posts of another source
C1_Witness ==
    /\ CollectReturned
    /\ SourceRaised(finished[1])
    /\ finished[1] # CollectTasks[1]
    /\ \E source \in Range(CollectTasks) :
           ~SourceRaised(source) /\ Len(taskOutcome[source].v) > 0

TokenAbsent == ~Truthy(config.x_bearer_token)

\* C2: without a bearer token search_x_posts returns an empty sequence and
\* sends no HTTP request, the call still returns with the posts of the other
\* sources, and source "x" ends "disabled"; a status "disabled" is only ever
\* given to source "x" with the token absent.
C2_DisabledIffXWithoutToken ==
    /\ TokenAbsent =>
           /\ requests["x"] = 0
           /\ taskState["x"] = "done" => taskOutcome["x"] = Ok(<<>>)
           /\ pc # "raised"
           /\ CollectReturned =>
                  /\ ReturnedStatuses["x"] = "disabled"
                  /\ \A source \in Range(CollectTasks) :
                         ~SourceRaised(source) => PostsIncluded(source)
    /\ \A source \in Sources :
           (pc = "loop" /\ Has(acc.statuses, source) /\ acc.statuses[source] = "disabled")
               => source = "x" /\ TokenAbsent
    /\ \A source \in Sources :
           (CollectReturned /\ Has(ReturnedStatuses, source)
                /\ ReturnedStatuses[source] = "disabled")
               => source = "x" /\ TokenAbsent

\* the call returned posts of other sources with X disabled by an empty token
C2_Witness ==
    /\ CollectReturned
    /\ config.x_bearer_token = JStr(<<>>)
    /\ ReturnedStatuses["x"] = "disabled"
    /\ Len(ReturnedPosts) > 0

\* the posts the call returns when every task finishes in list order: a
\* function of the settings and the responses alone
PostsOfListOrder ==
    LET fetches == [i \in 1..Len(CollectTasks) |->
                       Fetch(CollectTasks[i], config.x_bearer_token,
                             responses[CollectTasks[i]], CollectTake)]
        all_posts == Concat([i \in 1..Len(fetches) |->
                                IF fetches[i].raised THEN <<>> ELSE fetches[i].v])
    IN  SortedDesc([i \in 1..Len(all_posts) |-> _score_post_signal(all_posts[i]).post])

\* C3: for given responses of the sources, the returned posts are the same
\* sequence in whatever order the tasks finish, the order of posts with
\* equal (signal_score, engagement) included.
C3_PostsIndependentOfCompletionOrder ==
    CollectReturned => ReturnedPosts = PostsOfListOrder

\* the tasks finished in another order than they are listed, and two posts
\* of different sources with equal keys are next to each other in the result
C3_Witness ==
    /\ CollectReturned
    /\ finished # CollectTasks
    /\ \E i \in 1..(Len(ReturnedPosts) - 1) :
           /\ SortKey(ReturnedPosts[i]) = SortKey(ReturnedPosts[i + 1])
           /\ ReturnedPosts[i].source # ReturnedPosts[i + 1].source

\* C4: the returned posts are in descending order of (signal_score,
\* engagement): of two adjacent posts the earlier has the strictly higher
\* signal_score, or the same signal_score and an engagement at least that of
\* the later.
C4_PostsSortedDescending ==
    CollectReturned =>
        \A i \in 1..(Len(ReturnedPosts) - 1) :
            LET a == ReturnedPosts[i]
                b == ReturnedPosts[i + 1]
            IN  \/ a.signal_score > b.signal_score
                \/ a.signal_score = b.signal_score /\ a.engagement.n >= b.engagement.n

\* a result with two posts of equal score ordered by their engagement and
\* two posts ordered by their score
C4_Witness ==
    /\ CollectReturned
    /\ \E i \in 1..(Len(ReturnedPosts) - 1) :
           /\ ReturnedPosts[i].signal_score = ReturnedPosts[i + 1].signal_score
           /\ ReturnedPosts[i].engagement.n > ReturnedPosts[i + 1].engagement.n
    /\ \E i \in 1..(Len(ReturnedPosts) - 1) :
           ReturnedPosts[i].signal_score > ReturnedPosts[i + 1].signal_score

\* the posts of a source in the returned posts
PostsOf(source) == SelectSeq(ReturnedPosts, LAMBDA p : p.source = source)

\* every endpoint answered with no more items than the fetcher asked for
EndpointsHonourSize ==
    \A source \in Range(CollectTasks) :
        ResponseItems(source, responses[source])
            <= RequestedSize(source, JInt(CollectTake), DefaultLimitPerSource)

\* C11: whatever limit_per_source the caller gives, no source contributes
\* more posts to the result than the effective cap: the limit clamped into
\* 1..100, the configured default when the limit is absent.  Stated for
\* endpoints that return no more items than they were asked for.
C11_PerSourceCap ==
    (CollectReturned /\ EndpointsHonourSize) =>
        \A source \in Range(CollectTasks) : Len(PostsOf(source)) <= CollectTake

\* the sources whose returned status is "error"
ErrorSources == { source \in DOMAIN ReturnedStatuses : ReturnedStatuses[source] = "error" }

\* C12: in every result the keys of errors are exactly the sources whose
\* source_status is "error", each with the message of that source's
\* exception, and errors is None exactly when no source has status "error".
C12_ErrorsMatchErrorStatuses ==
    CollectReturned =>
        /\ DOMAIN ReturnedErrors = ErrorSources
        /\ \A source \in ErrorSources : ReturnedErrors[source] = taskOutcome[source].exc
        /\ result.v.errors.k = "null" <=> ErrorSources = {}

\* a result in which one source failed on its HTTP call, another on a
\* malformed body, and a third completed
C12_Witness ==
    /\ CollectReturned
    /\ Cardinality(ErrorSources) = 2
    /\ \E source \in ErrorSources : responses[source].kind # "ok"
    /\ \E source \in ErrorSources : responses[source].kind = "ok"
    /\ \E source \in DOMAIN ReturnedStatuses : ReturnedStatuses[source] = "completed"

(***************************************************************************)
(* Properties of the command line                                           *)
(***************************************************************************)
\* building the service from the environment failed
ConfigFailed == cliPc = "done" /\ cliService = NoResult

\* C13: cli_main returns 0 when the collection call succeeds; on every
\* failure, a configuration error raised while the service is built from
\* the environment included, it returns 1 after logging the exception and
\* prints nothing.
C13_CliReturnsOneOnEveryFailure ==
    cliPc = "done" =>
        IF ConfigFailed \/ cliCallRaises
        THEN /\ cliOutcome = [k |-> "return", code |-> 1]
             /\ cliLogged
             /\ cliStdout = "nothing"
        ELSE /\ cliOutcome = [k |-> "return", code |-> 0]
             /\ cliStdout # "nothing"

(***************************************************************************)
(* The three-post scenario                                                  *)
(***************************************************************************)
ScoreOf(p) == _score_post_signal(p).post.signal_score

\* C14: of the three scenario posts, post 1 ("... so frustrating and slow,
\* I'd definitely pay ...", engagement 50) is labelled exactly {pain, buying}
\* and has the highest signal_score, post 3 ("looking for an alternative
\* ...", engagement 0) is labelled exactly {intent, switch}, and post 2
\* ("great weather today", engagement 5) has no label and a score equal to
\* its engagement boost alone.
C14_ScenarioLabelsAndScores ==
    Returned(scored) =>
        /\ post = ScenarioPost1 =>
               /\ Range(scored.post.signal_labels) = {"pain", "buying"}
               /\ scored.post.signal_score > ScoreOf(ScenarioPost2)
               /\ scored.post.signal_score > ScoreOf(ScenarioPost3)
        /\ post = ScenarioPost3 =>
               Range(scored.post.signal_labels) = {"intent", "switch"}
        /\ post = ScenarioPost2 =>
               /\ scored.post.signal_labels = <<>>
               /\ scored.post.signal_score = EngagementBoost(5)

(***************************************************************************)
(* Properties of the summary                                                *)
(***************************************************************************)
Summarized == summary # NoResult

Segments(kind) == SelectSeq(summary, LAMBDA segment : segment.kind = kind)

SummaryKinds == { summary[i].kind : i \in 1..Len(summary) }

\* the string gives the status of every source of the result
StatesEveryStatus ==
    \A source \in DOMAIN sumResult.insights.source_status :
        \E i \in 1..Len(summary) :
            /\ summary[i].kind = "status"
            /\ summary[i].source = source
            /\ summary[i].status = sumResult.insights.source_status[source]

\* the string gives the number n under the given kind
StatesNumber(kind, n) == \E i \in 1..Len(summary) : summary[i].kind = kind /\ summary[i].n = n

\* the string gives the message of every source whose status is "error"
StatesEveryError ==
    \A source \in DOMAIN sumResult.insights.source_status :
        sumResult.insights.source_status[source] = "error" =>
            \E i \in 1..Len(summary) :
                /\ summary[i].kind = "error"
                /\ summary[i].source = source
                /\ summary[i].message = sumResult.errors.d[source]

\* C15: when the level is not "insufficient_data" the summary string states
\* level, score, counts and the status of every source, contains the error
\* message of every source that failed, and holds at most 3 pain excerpts of
\* at most 120 characters each; when the level is "insufficient_data" it is
\* only the insufficient-results sentence with the source status, without
\* error messages and without excerpts.
C15_SummaryContents ==
    Summarized =>
        IF sumResult.insights.signal_level = "insufficient_data"
        THEN /\ summary[1].kind = "insufficient"
             /\ SummaryKinds = {"insufficient", "status"}
             /\ StatesEveryStatus
        ELSE /\ \E i \in 1..Len(summary) :
                    /\ summary[i].kind = "level"
                    /\ summary[i].level = sumResult.insights.signal_level
             /\ StatesNumber("score", sumResult.insights.pmf_signal_score)
             /\ StatesNumber("total_posts", sumResult.insights.counts.total_posts)
             /\ StatesNumber("pain_posts", sumResult.insights.counts.pain_posts)
             /\ StatesNumber("intent_posts", sumResult.insights.counts.intent_posts)
             /\ StatesNumber("buying_posts", sumResult.insights.counts.buying_posts)
             /\ StatesEveryStatus
             /\ StatesEveryError
             /\ Len(Segments("excerpt")) <= 3
             /\ \A i \in 1..Len(Segments("excerpt")) :
                    Len(Segments("excerpt")[i].chars) <= 120

\* a summary of a result with a failed source and four pain snippets: three
\* excerpts, one of them cut to 120 characters
C15_Witness ==
    /\ Summarized
    /\ Len(sumResult.insights.top_pain_snippets) = 4
    /\ Len(Segments("error")) > 0
    /\ Len(Segments("excerpt")) = 3
    /\ \E i \in 1..3 : Len(Segments("excerpt")[i].chars) = 120

(***************************************************************************)
(* Properties of the PMF score                                              *)
(***************************************************************************)
Abs(x) == IF x < 0 THEN 0 - x ELSE x

CompletedSources(statuses) == {src \in DOMAIN statuses : statuses[src] = "completed"}

\* score is 100 * (0.7 * avg_signal + 0.3 * confidence) rounded to an integer,
\* where confidence = min(1, total / 40) * coverage and coverage is the share
\* of the sources of the status map that completed (0 for an empty map)
ScoreHasConfidence(score, scored_posts, statuses) ==
    LET total == Len(scored_posts)
        launched == Cardinality(DOMAIN statuses)
        cov_num == IF launched = 0 THEN 0 ELSE Cardinality(CompletedSources(statuses))
        cov_den == IF launched = 0 THEN 1 ELSE launched
        \* confidence = conf_num / conf_den
        conf_num == Min(40, total) * cov_num
        conf_den == 40 * cov_den
        \* 100 * (0.7 * avg + 0.3 * confidence) = num / den
        num == 7 * SumScores(scored_posts) * conf_den + 30000 * conf_num * total
        den == 1000 * total * conf_den
    IN  2 * Abs(score * den - num) <= den

\* C17: with at least one post, the confidence term of the PMF score is
\* min(1, total_posts / 40) multiplied by coverage, coverage being the number
\* of sources with status "completed" divided by the number of sources of
\* the status map ("disabled" and "error" sources count in the divisor only),
\* and 0 when the status map is empty.
C17_ConfidenceIsVolumeTimesCoverage ==
    /\ Aggregated /\ Len(aggPosts) > 0 =>
           ScoreHasConfidence(insights.pmf_signal_score, aggPosts, aggStatuses)
    /\ (CollectReturned /\ ~result.raised) =>
           (Len(ReturnedPosts) > 0 =>
               ScoreHasConfidence(result.v.insights.pmf_signal_score, ReturnedPosts,
                                  ReturnedStatuses))

\* more than 40 posts while one source of three completed, one was disabled
\* and one failed: the volume term is capped at 1 and the coverage is 1/3
C17_Witness ==
    /\ Aggregated
    /\ Len(aggPosts) > 40
    /\ aggStatuses = [src \in Sources |->
                         IF src = "reddit" THEN "completed"
                         ELSE IF src = "x" THEN "disabled" ELSE "error"]
    /\ \A i \in 1..Len(aggPosts) : aggPosts[i].signal_score = 10000
    /\ insights.pmf_signal_score = 80

\* C18: for a non-empty post list the signal level is determined by
\* pmf_signal_score alone: "strong" iff the score is >= 70, "moderate" iff
\* 45 <= score < 70, "weak" iff score < 45.
C18_LevelFromScoreThresholds ==
    /\ Aggregated /\ Len(aggPosts) > 0 =>
           /\ insights.signal_level \in {"strong", "moderate", "weak"}
           /\ insights.signal_level = "strong" <=> insights.pmf_signal_score >= 70
           /\ insights.signal_level = "moderate" <=>
                 (45 <= insights.pmf_signal_score /\ insights.pmf_signal_score < 70)
           /\ insights.signal_level = "weak" <=> insights.pmf_signal_score < 45
           /\ insights.signal_level = SignalLevel(insights.pmf_signal_score)
    \* the level chosen at every score a list of posts can have
    /\ \A score \in 0..100 :
           /\ SignalLevel(score) = "strong" <=> score >= 70
           /\ SignalLevel(score) = "moderate" <=> (45 <= score /\ score < 70)
           /\ SignalLevel(score) = "weak" <=> score < 45

\* a list of posts whose score is exactly 70, the lowest "strong" score
C18_Witness ==
    /\ Aggregated
    /\ Len(aggPosts) > 0
    /\ insights.pmf_signal_score = 70
    /\ insights.signal_level = "strong"

\* what the PMF score of an aggregator input depends on
AggMeasure(scored_posts, statuses) ==
    [sum |-> SumScores(scored_posts),
     total |-> Len(scored_posts),
     completed |-> Cardinality(CompletedSources(statuses)),
     launched |-> Cardinality(DOMAIN statuses)]

\* the measures of the non-empty aggregator inputs
Measures ==
    { AggMeasure(ps, st) : ps \in AggregatorInputs \ {<<>>}, st \in SampleStatuses }

\* confidence = ConfNum / ConfDen, average signal_score = sum / (10000 * total)
ConfNum(m) == Min(40, m.total) * m.completed

ConfDen(m) == 40 * Max(1, m.launched)

ConfEqual(a, b) == ConfNum(a) * ConfDen(b) = ConfNum(b) * ConfDen(a)

ConfLess(a, b) == ConfNum(a) * ConfDen(b) < ConfNum(b) * ConfDen(a)

AvgEqual(a, b) == a.sum * b.total = b.sum * a.total

AvgLess(a, b) == a.sum * b.total < b.sum * a.total

ScoreOfMeasure(m, half_up) == PmfScore(m.sum, m.total, m.completed, m.launched, half_up)

\* C19: pmf_signal_score is monotonically non-decreasing, rounding included:
\* of two non-empty aggregator inputs with equal confidence the one with the
\* larger average signal_score never has the smaller score, and of two with
\* equal average signal_score the one with the larger confidence never has
\* the smaller score.
C19_PmfScoreMonotone ==
    Aggregated /\ Len(aggPosts) > 0 =>
        LET mine == AggMeasure(aggPosts, aggStatuses)
        IN  \A other \in Measures, half_up \in BOOLEAN :
                /\ (ConfEqual(mine, other) /\ AvgLess(mine, other)) =>
                       insights.pmf_signal_score <= ScoreOfMeasure(other, half_up)
                /\ (ConfEqual(mine, other) /\ AvgLess(other, mine)) =>
                       ScoreOfMeasure(other, half_up) <= insights.pmf_signal_score
                /\ (AvgEqual(mine, other) /\ ConfLess(mine, other)) =>
                       insights.pmf_signal_score <= ScoreOfMeasure(other, half_up)
                /\ (AvgEqual(mine, other) /\ ConfLess(other, mine)) =>
                       ScoreOfMeasure(other, half_up) <= insights.pmf_signal_score

\* an input that has, among the other inputs, one of equal confidence and a
\* larger average whose score is the same after rounding, one of equal
\* confidence and a larger average whose score is larger, and one of equal
\* average and a larger confidence whose score is larger
C19_Witness ==
    /\ Aggregated
    /\ Len(aggPosts) > 0
    /\ LET mine == AggMeasure(aggPosts, aggStatuses)
       IN  /\ \E other \in Measures :
                  /\ ConfEqual(mine, other) /\ AvgLess(mine, other)
                  /\ ScoreOfMeasure(other, TRUE) = insights.pmf_signal_score
           /\ \E other \in Measures :
                  /\ ConfEqual(mine, other) /\ AvgLess(mine, other)
                  /\ ScoreOfMeasure(other, TRUE) > insights.pmf_signal_score
           /\ \E other \in Measures :
                  /\ AvgEqual(mine, other) /\ ConfLess(mine, other)
                  /\ ScoreOfMeasure(other, TRUE) > insights.pmf_signal_score

(***************************************************************************)
(* Properties of the requests of a collect call                             *)
(***************************************************************************)
\* the loop has recorded the failure of the source
Errored(source) == Has(acc.statuses, source) /\ acc.statuses[source] = "error"

\* C20: within one collect call the search endpoint of each launched source
\* is requested at most once; after the fetch of a source has failed or
\* timed out it is requested no more in that call, and once its status is
\* "error" it stays "error" until the call returns.
C20_AtMostOneRequestPerSource ==
    /\ [](\A source \in Sources : requests[source] <= 1)
    /\ [][\A source \in Sources :
              /\ SourceRaised(source) => requests'[source] = requests[source]
              /\ Errored(source) => Errored(source)']_vars
    /\ [](CollectReturned =>
              \A source \in Sources :
                  SourceRaised(source) =>
                      /\ Has(ReturnedStatuses, source)
                      /\ ReturnedStatuses[source] = "error"
                      /\ requests[source] = 1)

\* the call has returned after the first source failed on its only request,
\* X timed out on its only request, and the last source completed
C20_Witness ==
    /\ CollectReturned
    /\ responses["reddit"].kind = "status" /\ requests["reddit"] = 1
    /\ responses["x"].kind = "timeout" /\ requests["x"] = 1
    /\ ReturnedStatuses = [source \in Sources |->
                              IF source = "hackernews" THEN "completed" ELSE "error"]

(***************************************************************************)
(* Properties of the engagement boost                                       *)
(***************************************************************************)
MaxEngagement == 120

\* the engagement counts the boost of the scored post is compared with
ComparedEngagements == 0..MaxEngagement \cup {250000}

\* the boost the scorer computes for the post: lines 290-291
BoostOf(p) == EngagementBoost(_safe_int(p.engagement).v)

\* the engagement of the post is no count: missing, not a number, or NaN
Unparsable(p) ==
    \/ p.engagement.k \in {"null", "nan"}
    \/ p.engagement.k = "str" /\ ~IsIntLiteral(p.engagement.s)

\* C21: the engagement boost of _score_post_signal is monotonically
\* non-decreasing in the engagement count e for e >= 0, never exceeds 0.25,
\* and is 0 for e = 0 and for a negative or unparsable e.
C21_BoostMonotoneCappedZeroAtZero ==
    Returned(scored) =>
        LET e == _safe_int(post.engagement).v
        IN  /\ scored.post.signal_score =
                  ClampScore(RawScore(scored.post.pain_hits, scored.post.intent_hits,
                                      scored.post.buying_hits, scored.post.switch_hits,
                                      BoostOf(post)))
            /\ BoostOf(post) >= 0
            /\ BoostOf(post) <= 2500
            /\ (e <= 0 \/ Unparsable(post)) => BoostOf(post) = 0
            /\ e >= 0 =>
                  \A other \in ComparedEngagements :
                      /\ other >= e => EngagementBoost(other) >= BoostOf(post)
                      /\ other <= e => EngagementBoost(other) <= BoostOf(post)
            /\ \A other \in ComparedEngagements : EngagementBoost(other) <= 2500

\* a post without any keyword and with engagement 50: its score is its
\* boost, 0.2184, above the boost of 5 and below the cap that 250000 reaches
C21_Witness ==
    /\ Returned(scored)
    /\ post.engagement = JInt(50)
    /\ scored.post.signal_labels = <<>>
    /\ scored.post.signal_score = 2184
    /\ BoostOf(post) = 2184
    /\ EngagementBoost(5) < BoostOf(post)
    /\ EngagementBoost(250000) = 2500

(***************************************************************************)
(* Properties of the text of fetched posts                                  *)
(***************************************************************************)
\* every post of the list that the scorer gives pain_hits > 0 has a
\* non-empty text
PainPostsHaveText(posts) ==
    \A i \in 1..Len(posts) :
        LET sp == _score_post_signal(posts[i])
        IN  (~sp.raised /\ sp.post.pain_hits > 0) => Truthy(posts[i].text)

\* C22: every post produced by one of the three fetchers and scored with
\* pain_hits > 0 has a non-empty text, so in every result of
\* collect_customer_voice_signals top_pain_snippets has min(8,
\* counts.pain_posts) entries and is what filtering by text before taking
\* the first 8 would give.
C22_FetchedPainPostsHaveText ==
    /\ FetchReturned => PainPostsHaveText(fetched.v)
    /\ \A source \in DOMAIN taskOutcome :
           (taskState[source] = "done" /\ ~taskOutcome[source].raised) =>
               PainPostsHaveText(taskOutcome[source].v)
    /\ CollectReturned =>
           /\ Len(result.v.insights.top_pain_snippets)
                 = Min(8, result.v.insights.counts.pain_posts)
           /\ result.v.insights.top_pain_snippets = SnippetsFilteredFirst(ReturnedPosts)

\* a result with more than 8 pain posts, one of them a Hacker News hit whose
\* text is its title because it has neither comment nor story text
C22_Witness ==
    /\ CollectReturned
    /\ result.v.insights.counts.pain_posts > 8
    /\ Len(result.v.insights.top_pain_snippets) = 8
    /\ \E i \in 1..Len(ReturnedPosts) :
           /\ ReturnedPosts[i].source = "hackernews"
           /\ ReturnedPosts[i].pain_hits > 0
           /\ ReturnedPosts[i].title = ReturnedPosts[i].text
           /\ ~Truthy(GetOrNone(responses["hackernews"].payload.d["hits"].items[1],
                                 "comment_text"))

(***************************************************************************)
(* Properties of the competitor search                                      *)
(***************************************************************************)
\* the statuses of a poll after which the items may be fetched
ClaimedFinished == { <<"i", "d", "l", "e">>, <<"d", "o", "n", "e">>, <<"c", "o", "m", "p", "l", "e", "t", "e", "d">> }

\* the statuses of a poll that end the call with an exception
ClaimedFailed == { <<"f", "a", "i", "l", "e", "d">>, <<"e", "r", "r", "o", "r">>, <<"c", "a", "n", "c", "e", "l", "l", "e", "d">> }

NoExaRequest == csRequests = [create |-> 0, poll |-> 0, items |-> 0]

TimedOut == csResult = Raise("Timed out while waiting for Exa webset to complete")

\* the steps are ordered create -> poll -> fetch; a failed poll or a timeout
\* ends the call with an exception before any items request; without a key
\* there is no Exa request and the call returns "disabled" and no competitor
ProtocolOrder ==
    /\ csRequests.create <= 1
    /\ csRequests.poll > 0 => csRequests.create = 1
    /\ csRequests.items > 0 =>
          /\ csRequests.create = 1
          /\ csRequests.poll > 0
          /\ csStatus \in ClaimedFinished
          /\ csPc \in {"items", "returned", "raised"}
    /\ csStatus \in ClaimedFailed =>
          /\ csPc = "raised"
          /\ csResult.raised
          /\ csRequests.items = 0
    /\ TimedOut => csPc = "raised" /\ csRequests.items = 0
    /\ ~Truthy(csConfig.exa_api_key) =>
          /\ NoExaRequest
          /\ csPc \in {"start", "returned", "raised"}
          /\ csPc = "returned" =>
                /\ csResult.v.status = "disabled"
                /\ csResult.v.competitors = <<>>
    /\ (csPc = "returned" /\ Truthy(csConfig.exa_api_key)) =>
          /\ csResult.v.status = "completed"
          /\ csRequests.items > 0

\* the loop test after a sleep that ends at or after the deadline raises
\* TimeoutError, and no poll is sent any more
DeadlineRaises ==
    (csPc = "sleep" /\ csClock' >= TimeoutSeconds) =>
        /\ csPc' = "raised"
        /\ TimedOut'
        /\ csRequests' = csRequests

\* C23: in find_top_competitors_for_idea the steps of the webset protocol are
\* ordered create -> poll -> fetch: the items endpoint is requested only
\* after a poll has returned idle, done or completed; if a poll returns
\* failed, error or cancelled, or the polling deadline passes, an exception
\* propagates and the items endpoint is never requested; without an Exa API
\* key no Exa request is made and the result has status "disabled" and an
\* empty competitor list.
C23_WebsetProtocolOrder == [](csPc # "idle" => ProtocolOrder) /\ [][DeadlineRaises]_vars

\* a completed call whose first poll found the webset running and whose
\* second poll, one sleep later, found it done, before two items requests
C23_Witness ==
    /\ csPc = "returned"
    /\ csResult.v.status = "completed"
    /\ csRequests = [create |-> 1, poll |-> 2, items |-> 2]
    /\ csStatus = <<"d", "o", "n", "e">>
    /\ csClock = SleepSeconds
    /\ Len(csResult.v.competitors) = 2

FetchingItems == csPc = "items"

CallEnded == csPc \in {"returned", "raised"}

\* C24: the pagination loop of _fetch_webset_items ends after finitely many
\* requests whatever the server answers (batches without any object item
\* and nextOffset values that repeat or do not advance included), and it
\* returns at most limit items.
C24_FetchTerminatesWithinLimit ==
    /\ FetchingItems ~> CallEnded
    /\ [](csPc = "returned" => Len(csResult.v.competitors) <= SafeLimit)

====
